---- MODULE Spec2Model ----
\* Alert lifecycle engine of miou: the alert registry (alerts_map), the
\* notification task table (thread_handles_map), the spawned delayed tasks,
\* the poll loop that reconciles the registry against the polled games, and
\* the mutating API used by the command handlers.
EXTENDS Integers, Sequences, FiniteSets, TLC

\* ---------------------------------------------------------------- bounds
MaxAlerts == 2      \* alerts held by the registry at the same time
MaxHandles == 4     \* task handles 1..MaxHandles are looked at

Games == {"g1", "g2"}
Rooms == {"r1", "r2"}
Players == {"p1", "p2"}
Users == {"u1", "u2"}
Urls == {"url1", "url2"}
Delays == {1, 2}

\* ---------------------------------------------------------------- Alert
\* struct Alert (alert.rs)
Alert == [room_id : Rooms, player_id : Players, user_id : Users,
          notified : BOOLEAN, delay : Delays, player_url : Urls]

\* get_player_url: the url stored in an alert by register is the url of the player
PlayerUrl(p) == IF p = "p1" THEN "url1" ELSE "url2"

\* a mutated equality that also compares the notified flag
AlertEqWithNotified(a, b) ==
    /\ a.room_id = b.room_id
    /\ a.user_id = b.user_id
    /\ a.player_id = b.player_id
    /\ a.notified = b.notified

\* impl PartialEq for Alert
AlertEq(a, b) ==
    /\ a.room_id = b.room_id
    /\ a.user_id = b.user_id
    /\ a.player_id = b.player_id

\* the bytes a string feeds to the hasher, as a number
StrCode(s) ==
    CASE s = "r1" -> 1 [] s = "r2" -> 2
      [] s = "p1" -> 3 [] s = "p2" -> 4
      [] s = "u1" -> 5 [] s = "u2" -> 6
      [] OTHER -> 7

\* Hasher::write of one string into the running state (16 bits of it are kept)
HashWrite(h, s) == (h * 31 + StrCode(s)) % 65536

\* impl Hash for Alert: room_id, player_id, user_id, in that order
AlertHash(a) == HashWrite(HashWrite(HashWrite(0, a.room_id), a.player_id), a.user_id)

\* lookup of a key in a HashSet / HashMap: same hash and equal
KeyMatch(a, b) == AlertHash(a) = AlertHash(b) /\ AlertEq(a, b)

\* a mutated insert that replaces an equal element
InsertReplacing(set, a) == {b \in set : ~KeyMatch(b, a)} \cup {a}

\* a mutated insert that adds the element without looking for an equal one
InsertWithoutLookup(set, a) == set \cup {a}

\* HashSet::insert: an equal element already present is kept, the new one dropped
Insert(set, a) == IF \E b \in set : KeyMatch(b, a) THEN set ELSE set \cup {a}

\* HashSet::remove
Remove(set, a) == {b \in set : ~KeyMatch(b, a)}

\* ---------------------------------------------------------------- state
VARIABLES
    alerts_map,          \* AlertController.alerts_map: game id -> set of Alert
    thread_handles_map,  \* AlertController.thread_handles_map: set of [key, handle]
    tasks,               \* the spawned notification tasks, by handle
    games,               \* TMarsSync.games: game id -> waited players
    fetch_failed,        \* whether the last request for the games failed
    pc,                  \* position of the poll task in its loop
    alerts_to_fire,      \* the list get_alerts_to_fire returned
    probe,               \* operands and results of an Alert comparison
    file,                \* content of the alerts file
    saver                \* position of the persistence task in its loop

vars == <<alerts_map, thread_handles_map, tasks, games, fetch_failed, pc,
          alerts_to_fire, probe, file, saver>>

EmptyMap == [g \in {} |-> {}]
NoProbe == [op |-> "none"]

\* the alerts file does not exist
NoFile == [kind |-> "missing"]

\* the positions of the poll task inside the update loop of get_alerts_to_fire
ScanSteps == {"scanning", "removed"}

\* a mutated mutex that the update loop of get_alerts_to_fire does not hold
RegistryFreeDuringScan == saver = "waiting"

\* the mutex of alerts_map is free: neither the persistence task nor the update
\* loop of get_alerts_to_fire holds it
RegistryFree == saver = "waiting" /\ pc \notin ScanSteps

\* all alerts held by the registry, as (game, alert) pairs
AllAlerts(m) == UNION {{<<g, a>> : a \in m[g]} : g \in DOMAIN m}

RECURSIVE SetToSeq(_)
SetToSeq(S) == IF S = {} THEN <<>>
               ELSE LET x == CHOOSE y \in S : TRUE IN <<x>> \o SetToSeq(S \ {x})

Range(s) == {s[i] : i \in 1..Len(s)}

Init ==
    /\ alerts_map = EmptyMap
    /\ thread_handles_map = {}
    /\ tasks = EmptyMap
    /\ games = EmptyMap
    /\ fetch_failed = FALSE
    /\ pc = "idle"
    /\ alerts_to_fire = <<>>
    /\ probe = NoProbe
    /\ file = NoFile
    /\ saver = "waiting"

\* ---------------------------------------------------------------- tasks
\* a mutated abort that also stops a task that is past its sleep
AbortAlsoRunning(tsks, hs) ==
    [i \in DOMAIN tsks |->
        IF i \in hs /\ tsks[i].state \in {"sleeping", "running"}
        THEN [tsks[i] EXCEPT !.state = "aborted"]
        ELSE tsks[i]]

\* JoinHandle::abort: a task still sleeping is cancelled at its await point; a
\* task past its sleep has no await point left and runs to its end; a finished
\* one is untouched
Abort(tsks, hs) ==
    [i \in DOMAIN tsks |->
        IF i \in hs /\ tsks[i].state = "sleeping"
        THEN [tsks[i] EXCEPT !.state = "aborted"]
        ELSE tsks[i]]

\* the tasks that still exist: those sleeping or running, and the finished ones
\* whose JoinHandle the task table still holds
Collect(tsks, handles) ==
    LET live == {i \in DOMAIN tsks :
                    \/ tsks[i].state \in {"sleeping", "running"}
                    \/ \E e \in handles : e.handle = i}
    IN [i \in live |-> tsks[i]]

\* the entries of the task table whose key equals the alert
Entries(handles, a) == {e \in handles : KeyMatch(e.key, a)}

\* HashMap::remove_entry for every alert of a set
RemoveEntries(handles, alerts) ==
    {e \in handles : ~\E a \in alerts : KeyMatch(e.key, a)}

\* a mutation in which the removed handles are dropped without being aborted
NoRemovedHandles(handles, alerts) == {}

\* the handles remove_entry returned for the alerts of a set
RemovedHandles(handles, alerts) ==
    {e.handle : e \in {x \in handles : \E a \in alerts : KeyMatch(x.key, a)}}

Pending(t) == t \in DOMAIN tasks /\ tasks[t].state = "sleeping"

Running(t) == t \in DOMAIN tasks /\ tasks[t].state = "running"

Done(t) == t \in DOMAIN tasks /\ tasks[t].state = "done"

\* ---------------------------------------------------------------- polling
\* Game.players: the ids of the players of each game on the server
GamePlayers(g) == IF g = "g1" THEN {"p1", "p2"} ELSE {"p1"}

\* what the server answers about one game to pool_games
DetailOutcomes == {"unlisted", "detail_err", "end", "action"}

\* a mutated pool_games that keeps the games whose phase is "end"
PooledGamesKeepingEnded(list_ok, detail) ==
    IF ~list_ok THEN {} ELSE {g \in Games : detail[g] \in {"action", "end"}}

\* the games pool_games keeps: listed, details fetched, phase not "end"
PooledGames(list_ok, detail) ==
    IF ~list_ok THEN {} ELSE {g \in Games : detail[g] = "action"}

\* pool_games: the games are requested and the map is rebuilt, nobody waited for yet
PoolGames ==
    /\ pc = "idle"
    /\ \E list_ok \in BOOLEAN, detail \in [Games -> DetailOutcomes] :
          /\ games' = [g \in PooledGames(list_ok, detail) |-> {}]
          /\ fetch_failed' = ~list_ok
    /\ pc' = "pooled"
    /\ UNCHANGED <<alerts_map, thread_handles_map, tasks, alerts_to_fire, probe, file, saver>>

\* what the server answers to request_waited_players for one game
WaitedOutcomes(g) ==
    {[ok |-> FALSE, waiting_for |-> {}]}
      \cup {[ok |-> TRUE, waiting_for |-> w] : w \in SUBSET GamePlayers(g)}

\* a mutated mapping that reports a player as waited for when the request failed
WaitedPlayersOnErrorFirst(answer) == IF answer.ok THEN answer.waiting_for ELSE {"p1"}

\* request_waited_players and the mapping of the colors to the players of the game
WaitedPlayers(answer) == IF answer.ok THEN answer.waiting_for ELSE {}

\* pool_waited_players with the given answers of the server, then get_games
PoolWaitedPlayersCall(answer) ==
    /\ pc = "pooled"
    /\ \A g \in DOMAIN games : answer[g] \in WaitedOutcomes(g)
    /\ games' = [g \in DOMAIN games |-> WaitedPlayers(answer[g])]
    /\ pc' = "synced"
    /\ UNCHANGED <<alerts_map, thread_handles_map, tasks, fetch_failed, alerts_to_fire,
                   file, saver>>

\* pool_waited_players, then get_games
PoolWaitedPlayers ==
    /\ \E answer \in [DOMAIN games -> UNION {WaitedOutcomes(g) : g \in Games}] :
          PoolWaitedPlayersCall(answer)
    /\ UNCHANGED probe

\* ---------------------------------------------------------------- reconcile
\* a mutated retain that keeps the games it should drop
GamesToCleanInverted(m, gm) == {g \in DOMAIN m : g \in DOMAIN gm}

\* the games clean_alerts drops
GamesToClean(m, gm) == {g \in DOMAIN m : g \notin DOMAIN gm}

AlertsOf(m, gs) == UNION {m[g] : g \in gs}

\* clean_alerts, whatever is recorded about it
CleanAlertsCall ==
    /\ pc = "synced"
    /\ RegistryFree
    /\ LET gone == GamesToClean(alerts_map, games)
           dropped == AlertsOf(alerts_map, gone)
       IN /\ alerts_map' = [g \in DOMAIN alerts_map \ gone |-> alerts_map[g]]
          /\ thread_handles_map' = RemoveEntries(thread_handles_map, dropped)
          /\ tasks' = Collect(Abort(tasks, RemovedHandles(thread_handles_map, dropped)),
                              thread_handles_map')
    /\ pc' = "cleaned"
    /\ UNCHANGED <<games, fetch_failed, alerts_to_fire, file, saver>>

\* clean_alerts
CleanAlerts == CleanAlertsCall /\ UNCHANGED probe

\* a mutated first branch that does not look at the notified flag
ShouldFireIgnoringNotified(waited, a) == a.player_id \in waited

\* first branch of the scan: the player is waited for and was not notified
ShouldFire(waited, a) == a.player_id \in waited /\ ~a.notified

\* a mutated second branch that does not look at the notified flag
ShouldResetIgnoringNotified(waited, a) == a.player_id \notin waited

\* second branch of the scan: the player is no longer waited for and was notified
ShouldReset(waited, a) == a.player_id \notin waited /\ a.notified

\* the (alert, new notified) pairs collected for one game
AlertsToUpdate(alerts, waited) ==
    {<<a, TRUE>> : a \in {x \in alerts : ShouldFire(waited, x)}}
      \cup {<<a, FALSE>> : a \in {x \in alerts : ~ShouldFire(waited, x) /\ ShouldReset(waited, x)}}

\* the remove / set notified / insert loop over alerts_to_update
RECURSIVE ApplyUpdates(_, _)
ApplyUpdates(alerts, updates) ==
    IF updates = {} THEN alerts
    ELSE LET u == CHOOSE x \in updates : TRUE
             updated == [u[1] EXCEPT !.notified = u[2]]
         IN ApplyUpdates(Insert(Remove(alerts, u[1]), updated), updates \ {u})

\* the games get_alerts_to_fire looks at: those polled that have registered alerts
GamesToScan(m, gm) == DOMAIN gm \cap DOMAIN m

\* a mutated push that clones the alert after its flag was set
FiredOfUpdated(m, gm, g) ==
    {<<g, [a EXCEPT !.notified = TRUE]>> : a \in {x \in m[g] : ShouldFire(gm[g], x)}}

\* the (game, alert) pairs pushed for one game, cloned before the update
FiredOf(m, gm, g) == {<<g, a>> : a \in {x \in m[g] : ShouldFire(gm[g], x)}}

\* the alerts whose task the scan aborts
ResetOf(m, gm, g) == {a \in m[g] : ~ShouldFire(gm[g], a) /\ ShouldReset(gm[g], a)}

RECURSIVE FireList(_, _, _)
FireList(m, gm, order) ==
    IF order = <<>> THEN <<>>
    ELSE SetToSeq(FiredOf(m, gm, Head(order))) \o FireList(m, gm, Tail(order))

\* the orders in which a HashMap of these games may be iterated
Orders(gs) == {o \in UNION {[1..n -> gs] : n \in {Cardinality(gs)}} :
                  \A i, j \in DOMAIN o : i # j => o[i] # o[j]}

\* get_alerts_to_fire: the scan, the updates of the flags and the aborts
GetAlertsToFireCall ==
    /\ pc = "cleaned"
    /\ RegistryFree
    /\ LET scan == GamesToScan(alerts_map, games)
           reset == UNION {ResetOf(alerts_map, games, g) : g \in scan}
       IN /\ \E order \in Orders(scan) :
                alerts_to_fire' = FireList(alerts_map, games, order)
          /\ alerts_map' = [g \in DOMAIN alerts_map |->
                               IF g \in scan
                               THEN ApplyUpdates(alerts_map[g],
                                                 AlertsToUpdate(alerts_map[g], games[g]))
                               ELSE alerts_map[g]]
          /\ thread_handles_map' = RemoveEntries(thread_handles_map, reset)
          /\ tasks' = Collect(Abort(tasks, RemovedHandles(thread_handles_map, reset)),
                              thread_handles_map')
    /\ pc' = "evaluated"
    /\ UNCHANGED <<games, fetch_failed, file, saver>>

\* get_alerts_to_fire
GetAlertsToFire == GetAlertsToFireCall /\ UNCHANGED probe

\* the handle of the next spawned task: the first one no task of this call has had
NewHandle(used) ==
    CHOOSE i \in 1..(Cardinality(used) + 1) :
        /\ i \notin used
        /\ \A j \in 1..(i - 1) : j \in used

\* tokio::spawn of the delayed notification
Spawn(tsks, h, g, a) ==
    [i \in DOMAIN tsks \cup {h} |->
        IF i = h THEN [alert |-> a, game_id |-> g, state |-> "sleeping"] ELSE tsks[i]]

\* HashMap::insert: the value of an equal key is replaced, its key is kept
InsertHandle(handles, a, h) ==
    IF Entries(handles, a) = {}
    THEN handles \cup {[key |-> a, handle |-> h]}
    ELSE {IF KeyMatch(e.key, a) THEN [e EXCEPT !.handle = h] ELSE e : e \in handles}

\* a mutated iteration that aborts what the table holds after the insert
FireOneAbortAfterInsert(st, entry) ==
    LET handles == st[1]
        tsks == st[2]
        used == st[3]
        h == NewHandle(used)
        inserted == InsertHandle(handles, entry[2], h)
        spawned == Spawn(tsks, h, entry[1], entry[2])
        aborted == Abort(spawned, {e.handle : e \in Entries(inserted, entry[2])})
    IN <<inserted, Collect(aborted, inserted), used \cup {h}>>

\* a mutated iteration that does not abort the task the table holds
FireOneWithoutAbort(st, entry) ==
    LET handles == st[1]
        tsks == st[2]
        used == st[3]
        h == NewHandle(used)
        inserted == InsertHandle(handles, entry[2], h)
    IN <<inserted, Collect(Spawn(tsks, h, entry[1], entry[2]), inserted), used \cup {h}>>

\* one iteration of fire_alert: st is <<task table, tasks, handles seen in this call>>
FireOne(st, entry) ==
    LET handles == st[1]
        tsks == st[2]
        used == st[3]
        aborted == Abort(tsks, {e.handle : e \in Entries(handles, entry[2])})
        h == NewHandle(used)
        inserted == InsertHandle(handles, entry[2], h)
    IN <<inserted, Collect(Spawn(aborted, h, entry[1], entry[2]), inserted), used \cup {h}>>

RECURSIVE FireAll(_, _)
FireAll(st, list) ==
    IF list = <<>> THEN st ELSE FireAll(FireOne(st, Head(list)), Tail(list))

\* fire_alert, then update_alerts returns and the poll task waits for its next tick
FireAlert ==
    /\ pc = "evaluated"
    /\ LET st == FireAll(<<thread_handles_map, tasks, DOMAIN tasks>>, alerts_to_fire)
       IN /\ thread_handles_map' = st[1]
          /\ tasks' = st[2]
    /\ alerts_to_fire' = <<>>
    /\ pc' = "idle"
    /\ UNCHANGED <<alerts_map, games, fetch_failed, probe, file, saver>>

\* a mutated task that takes its entry out of the task table when it has fired
TaskExpireDroppingEntry(t) ==
    /\ Pending(t)
    /\ thread_handles_map' = {e \in thread_handles_map : e.handle # t}
    /\ tasks' = Collect([tasks EXCEPT ![t].state = "done"], thread_handles_map')
    /\ UNCHANGED <<alerts_map, games, fetch_failed, pc, alerts_to_fire, probe, file, saver>>

\* the spawned task: the sleep ends and on_alert_to_fire is called, the call
\* returns at once (it only spawns the sending of the mention)
TaskExpire(t) ==
    /\ Pending(t)
    /\ tasks' = Collect([tasks EXCEPT ![t].state = "done"], thread_handles_map)
    /\ UNCHANGED <<alerts_map, thread_handles_map, games, fetch_failed, pc,
                   alerts_to_fire, probe, file, saver>>

\* ---------------------------------------------------------------- mutating API
\* the controller mutex is free: the poll task is not inside update_alerts
ControllerFree == pc \in {"idle", "pooled", "synced"}

\* a mutated add_alert that overwrites the entry of the game with the new alert
AddedMapOverwriting(m, g, a) ==
    [h \in DOMAIN m \cup {g} |-> IF h = g THEN {a} ELSE m[h]]

\* the alerts map after add_alert
AddedMap(m, g, a) ==
    LET alerts == IF g \in DOMAIN m THEN m[g] ELSE {}
    IN [h \in DOMAIN m \cup {g} |-> IF h = g THEN Insert(alerts, a) ELSE m[h]]

\* add_alert
AddAlert(g, a) ==
    /\ ControllerFree
    /\ RegistryFree
    /\ Cardinality(AllAlerts(AddedMap(alerts_map, g, a))) <= MaxAlerts
    /\ alerts_map' = AddedMap(alerts_map, g, a)
    /\ UNCHANGED <<thread_handles_map, tasks, games, fetch_failed, pc, alerts_to_fire, file, saver>>

\* a mutated predicate that keeps only the alerts of another room and another user
RetainedBothDiffer(a, room_id, user_id) == a.room_id # room_id /\ a.user_id # user_id

\* the predicate of retain in remove_alerts
Retained(a, room_id, user_id) == a.room_id # room_id \/ a.user_id # user_id

\* a mutated remove_alerts that creates the entry of a game it does not find
RemovedMapCreating(m, g, room_id, user_id) ==
    [h \in DOMAIN m \cup {g} |->
        IF h = g
        THEN {a \in (IF g \in DOMAIN m THEN m[g] ELSE {}) : Retained(a, room_id, user_id)}
        ELSE m[h]]

\* a mutated remove_alerts that deletes the entry of a game left without alerts
RemovedMapDroppingEmpty(m, g, room_id, user_id) ==
    IF g \notin DOMAIN m THEN m
    ELSE LET left == {a \in m[g] : Retained(a, room_id, user_id)}
         IN IF left = {} THEN [h \in DOMAIN m \ {g} |-> m[h]]
            ELSE [m EXCEPT ![g] = left]

\* the alerts map after remove_alerts
RemovedMap(m, g, room_id, user_id) ==
    IF g \notin DOMAIN m THEN m
    ELSE [m EXCEPT ![g] = {a \in m[g] : Retained(a, room_id, user_id)}]

\* a mutated remove_alerts that also aborts the tasks of the alerts it removes
RemoveAlertsAborting(g, room_id, user_id) ==
    /\ ControllerFree
    /\ RegistryFree
    /\ alerts_map' = RemovedMap(alerts_map, g, room_id, user_id)
    /\ LET removed == IF g \in DOMAIN alerts_map
                      THEN {a \in alerts_map[g] : ~Retained(a, room_id, user_id)}
                      ELSE {}
       IN /\ thread_handles_map' = RemoveEntries(thread_handles_map, removed)
          /\ tasks' = Collect(Abort(tasks, RemovedHandles(thread_handles_map, removed)),
                              thread_handles_map')
    /\ UNCHANGED <<games, fetch_failed, pc, alerts_to_fire, file, saver>>

\* remove_alerts
RemoveAlerts(g, room_id, user_id) ==
    /\ ControllerFree
    /\ RegistryFree
    /\ alerts_map' = RemovedMap(alerts_map, g, room_id, user_id)
    /\ UNCHANGED <<thread_handles_map, tasks, games, fetch_failed, pc, alerts_to_fire, file, saver>>

\* the alerts the commands of the concurrent model register
BotRooms == {"r1"}
BotUsers == {"u1"}
BotDelays == {1}
BotAlerts(g) == {a \in Alert : /\ a.room_id \in BotRooms
                            /\ a.user_id \in BotUsers
                            /\ a.player_id \in GamePlayers(g)
                            /\ a.delay \in BotDelays
                            /\ a.player_url = PlayerUrl(a.player_id)}

Next ==
    \/ PoolGames
    \/ PoolWaitedPlayers
    \/ CleanAlerts
    \/ GetAlertsToFire
    \/ FireAlert
    \/ \E t \in 1..MaxHandles : TaskExpire(t)
    \/ \E g \in Games : \E a \in BotAlerts(g) : AddAlert(g, a) /\ UNCHANGED probe
    \/ \E g \in Games, r \in BotRooms, u \in BotUsers :
          RemoveAlerts(g, r, u) /\ UNCHANGED probe

Spec == Init /\ [][Next]_vars

\* ---------------------------------------------------------------- properties
\* the two alerts are the same subscription
SameTriple(a, b) ==
    a.room_id = b.room_id /\ a.player_id = b.player_id /\ a.user_id = b.user_id

\* the pending tasks that notify the subscription of alert a
PendingFor(tsks, a) ==
    {t \in DOMAIN tsks : tsks[t].state = "sleeping" /\ SameTriple(tsks[t].alert, a)}

\* the player of the alert is waited for in the polled game
Active(g, a) == g \in DOMAIN games /\ a.player_id \in games[g]

\* steps of the poll task inside update_alerts
CleanStep == pc = "synced" /\ pc' = "cleaned"
EvaluateStep == pc = "cleaned" /\ pc' = "evaluated"
ReturnStep == pc = "evaluated" /\ pc' = "idle"

\* the (game, alert) pairs the scan has to arm
ToArm == UNION {{<<g, a>> : a \in {x \in alerts_map[g] : Active(g, x) /\ ~x.notified}} :
                  g \in DOMAIN alerts_map}

\* C1: when update_alerts runs on a registry holding an alert with notified=false
\* whose player is waited for in the polled game, the fire-list holds exactly the
\* (game, alert) pairs of such alerts, the registry then holds the alert with
\* notified=true, and when update_alerts returns exactly one pending task exists
\* for it.
C1_Arming ==
    [][/\ EvaluateStep =>
            /\ Range(alerts_to_fire') = ToArm
            /\ Len(alerts_to_fire') = Cardinality(ToArm)
            /\ \A p \in ToArm : [p[2] EXCEPT !.notified = TRUE] \in alerts_map'[p[1]]
       /\ ReturnStep =>
            \A i \in DOMAIN alerts_to_fire :
                /\ Cardinality(PendingFor(tasks', alerts_to_fire[i][2])) = 1
                /\ [alerts_to_fire[i][2] EXCEPT !.notified = TRUE]
                       \in alerts_map'[alerts_to_fire[i][1]]]_vars

C1_Witness ==
    /\ pc = "idle"
    /\ \E g \in DOMAIN alerts_map : \E a \in alerts_map[g] :
          /\ a.notified
          /\ Active(g, a)
          /\ \E e \in thread_handles_map :
                /\ SameTriple(e.key, a)
                /\ PendingFor(tasks, a) = {e.handle}
                /\ tasks[e.handle].game_id = g

\* the timer of every spawned task runs: a sleeping task that is not aborted
\* reaches the end of its sleep
FairSpec == Spec /\ \A t \in 1..MaxHandles : WF_vars(TaskExpire(t))

C3_Reset ==
    [][/\ EvaluateStep =>
            \A g \in DOMAIN alerts_map \cap DOMAIN games : \A a \in alerts_map[g] :
                (a.notified /\ ~Active(g, a)) =>
                    /\ [a EXCEPT !.notified = FALSE] \in alerts_map'[g]
                    /\ \A e \in thread_handles_map :
                          SameTriple(e.key, a) =>
                              /\ e \notin thread_handles_map'
                              /\ e.handle \notin DOMAIN tasks'
                    /\ PendingFor(tasks', a) = {}
       /\ ReturnStep => alerts_map' = alerts_map]_vars

C3_Witness ==
    /\ pc = "cleaned"
    /\ \E g \in DOMAIN alerts_map \cap DOMAIN games : \E a \in alerts_map[g] :
          /\ a.notified
          /\ ~Active(g, a)
          /\ \E e \in thread_handles_map : SameTriple(e.key, a) /\ Pending(e.handle)

\* C4: there is at most one pending notification task per alert identity, and
\* every pending task is the one the task table holds for that identity; when
\* fire_alert schedules an identity that has a pending task, that task is
\* cancelled and the pending task left is a newly spawned one.
C4_Debounce ==
    /\ [](\A t \in DOMAIN tasks :
             tasks[t].state = "sleeping" =>
                 /\ PendingFor(tasks, tasks[t].alert) = {t}
                 /\ \E e \in thread_handles_map :
                       e.handle = t /\ SameTriple(e.key, tasks[t].alert))
    /\ [][ReturnStep =>
             \A i \in DOMAIN alerts_to_fire :
                 /\ PendingFor(tasks, alerts_to_fire[i][2]) \cap DOMAIN tasks' = {}
                 /\ Cardinality(PendingFor(tasks', alerts_to_fire[i][2])) = 1]_vars

C4_Witness ==
    /\ pc = "evaluated"
    /\ \E i \in DOMAIN alerts_to_fire : PendingFor(tasks, alerts_to_fire[i][2]) # {}

\* C5: for every game G that the registry holds and the polled games lack,
\* clean_alerts removes G's entry and leaves no pending task for an alert of G's
\* set; until update_alerts returns the registry holds no game the poll lacks and
\* no task is spawned for such a game.
C5_PruneComplete ==
    [][/\ CleanStep =>
            \A g \in DOMAIN alerts_map \ DOMAIN games :
                /\ g \notin DOMAIN alerts_map'
                /\ \A a \in alerts_map[g] : PendingFor(tasks', a) = {}
       /\ (pc \in {"cleaned", "evaluated"}) =>
            /\ DOMAIN alerts_map' \subseteq DOMAIN games
            /\ \A t \in DOMAIN tasks' \ DOMAIN tasks : tasks'[t].game_id \in DOMAIN games]_vars

C5_Witness ==
    /\ pc = "synced"
    /\ \E g \in DOMAIN alerts_map \ DOMAIN games : \E a \in alerts_map[g] :
          /\ PendingFor(tasks, a) # {}
          /\ \E h \in DOMAIN alerts_map \cap DOMAIN games : alerts_map[h] # {}

\* C6: when the request for the games failed, so that update_alerts receives an
\* empty games map, the call changes neither the registry nor the task table.
C6_FailedPollChangesNothing ==
    [][(fetch_failed /\ (CleanStep \/ EvaluateStep \/ ReturnStep)) =>
          /\ alerts_map' = alerts_map
          /\ thread_handles_map' = thread_handles_map
          /\ tasks' = tasks]_vars

\* C7: a pending task of an alert that remove_alerts removed is cancelled by the
\* next update_alerts: when update_alerts returns, every pending task belongs to
\* an alert the registry holds.
C7_StaleTasksCleaned ==
    [][ReturnStep =>
          \A t \in DOMAIN tasks' :
              tasks'[t].state = "sleeping" =>
                  \E g \in DOMAIN alerts_map' : \E a \in alerts_map'[g] :
                      SameTriple(a, tasks'[t].alert)]_vars

\* ---------------------------------------------------------------- Alert comparison
\* two alerts are compared and hashed, as test_is_equal / test_is_not_equal do
Compare ==
    /\ probe.op = "operands"
    /\ probe' = [op |-> "compare", a |-> probe.a, b |-> probe.b,
                 eq |-> AlertEq(probe.a, probe.b),
                 hash_a |-> AlertHash(probe.a), hash_b |-> AlertHash(probe.b)]
    /\ UNCHANGED <<alerts_map, thread_handles_map, tasks, games, fetch_failed, pc,
                   alerts_to_fire, file, saver>>

InitEq ==
    /\ alerts_map = EmptyMap
    /\ thread_handles_map = {}
    /\ tasks = EmptyMap
    /\ games = EmptyMap
    /\ fetch_failed = FALSE
    /\ pc = "idle"
    /\ alerts_to_fire = <<>>
    /\ file = NoFile
    /\ saver = "waiting"
    /\ \E a \in Alert, b \in Alert : probe = [op |-> "operands", a |-> a, b |-> b]

NextEq == Compare

SpecEq == InitEq /\ [][NextEq]_vars

\* C10: two Alerts with the same room_id, player_id and user_id compare equal and
\* have equal hashes, whatever their notified, delay and player_url; two Alerts
\* that differ in room_id, player_id or user_id compare unequal.
C10_EqualityByTriple ==
    probe.op = "compare" =>
        /\ SameTriple(probe.a, probe.b) => probe.eq /\ probe.hash_a = probe.hash_b
        /\ ~SameTriple(probe.a, probe.b) => ~probe.eq

C10_Witness ==
    /\ probe.op = "compare"
    /\ SameTriple(probe.a, probe.b)
    /\ probe.a.notified # probe.b.notified
    /\ probe.a.delay # probe.b.delay
    /\ probe.a.player_url # probe.b.player_url
    /\ probe.eq
    /\ probe.hash_a = probe.hash_b

\* ---------------------------------------------------------------- the API alone
\* add_alert and remove_alerts called on the controller, as the unit tests do,
\* with the registry before the call kept for comparison
ApiAlerts == {a \in Alert : a.player_id = "p1" /\ a.player_url = PlayerUrl(a.player_id)}

CallAddAlert(g, a) ==
    /\ AddAlert(g, a)
    /\ probe' = [op |-> "add_alert", game_id |-> g, alert |-> a, before |-> alerts_map]

CallRemoveAlerts(g, room_id, user_id) ==
    /\ RemoveAlerts(g, room_id, user_id)
    /\ probe' = [op |-> "remove_alerts", game_id |-> g, room_id |-> room_id,
                 user_id |-> user_id, before |-> alerts_map]

NextApi ==
    \/ \E g \in Games, a \in ApiAlerts : CallAddAlert(g, a)
    \/ \E g \in Games, r \in Rooms, u \in Users : CallRemoveAlerts(g, r, u)

SpecApi == Init /\ [][NextApi]_vars

\* C8: RemoveAlerts(group, room, user) removes exactly the alerts of that group
\* whose room_id equals room and whose user_id equals user; the other alerts of
\* the group and every alert of every other group are left unchanged.
C8_RemoveExactlyMatching ==
    probe.op = "remove_alerts" =>
        /\ DOMAIN alerts_map = DOMAIN probe.before
        /\ \A g \in DOMAIN alerts_map :
              alerts_map[g] =
                  {a \in probe.before[g] :
                      ~(/\ g = probe.game_id
                        /\ a.room_id = probe.room_id
                        /\ a.user_id = probe.user_id)}

C8_Witness ==
    /\ probe.op = "remove_alerts"
    /\ probe.game_id \in DOMAIN probe.before
    /\ \E a, b \in probe.before[probe.game_id] :
          /\ a.room_id = probe.room_id /\ a.user_id = probe.user_id
          /\ (b.room_id = probe.room_id) # (b.user_id = probe.user_id)
          /\ a \notin alerts_map[probe.game_id]
          /\ b \in alerts_map[probe.game_id]

C11_OnePerGroupTargetObserver ==
    \A g \in DOMAIN alerts_map : \A a, b \in alerts_map[g] :
        (a.player_id = b.player_id /\ a.user_id = b.user_id) => a = b

\* C11: two alerts of a group are the same subscription iff their room, player
\* and user match: the registry holds at most one alert per (group, room,
\* player, user), whatever the other fields of the alerts that were added, and
\* alerts of the same player and user in different rooms are kept apart.
C11_OnePerGroupRoomTargetObserver ==
    /\ \A g \in DOMAIN alerts_map : \A a, b \in alerts_map[g] :
          SameTriple(a, b) => a = b
    /\ (probe.op = "add_alert" /\ probe.game_id \in DOMAIN probe.before) =>
          ((\A b \in probe.before[probe.game_id] : ~SameTriple(b, probe.alert)) =>
              alerts_map[probe.game_id] = probe.before[probe.game_id] \cup {probe.alert})

C11_Witness ==
    /\ probe.op = "add_alert"
    /\ \E a, b \in alerts_map[probe.game_id] :
          /\ a.room_id # b.room_id
          /\ a.player_id = b.player_id
          /\ a.user_id = b.user_id
          /\ b = probe.alert
          /\ a \in probe.before[probe.game_id]

\* ---------------------------------------------------------------- the task, step by step
\* the callbacks that run at the same time
MaxRunning == 1

\* the spawned task: time::sleep returns, the task goes on to the call
TaskWake(t) ==
    /\ Pending(t)
    /\ Cardinality({i \in DOMAIN tasks : tasks[i].state = "running"}) < MaxRunning
    /\ tasks' = [tasks EXCEPT ![t].state = "running"]
    /\ UNCHANGED <<alerts_map, thread_handles_map, games, fetch_failed, pc,
                   alerts_to_fire, probe, file, saver>>

\* the spawned task: on_alert_to_fire(alert_clone) has returned, the task ends
TaskCall(t) ==
    /\ Running(t)
    /\ tasks' = Collect([tasks EXCEPT ![t].state = "done"], thread_handles_map)
    /\ UNCHANGED <<alerts_map, thread_handles_map, games, fetch_failed, pc,
                   alerts_to_fire, probe, file, saver>>

\* the poll loop, the commands and the tasks, each task taking the end of its
\* sleep and its call of on_alert_to_fire as two steps
NextRace ==
    \/ PoolGames
    \/ PoolWaitedPlayers
    \/ CleanAlerts
    \/ GetAlertsToFire
    \/ FireAlert
    \/ \E t \in 1..MaxHandles : TaskWake(t)
    \/ \E t \in 1..MaxHandles : TaskCall(t)
    \/ \E a \in BotAlerts("g2") : AddAlert("g2", a) /\ UNCHANGED probe
    \/ \E r \in BotRooms, u \in BotUsers : RemoveAlerts("g2", r, u) /\ UNCHANGED probe

SpecRace == Init /\ [][NextRace]_vars

\* the step asks for the cancellation of task t: the table held its handle and
\* holds it no more
Cancelled(t) ==
    /\ \E e \in thread_handles_map : e.handle = t
    /\ ~\E e \in thread_handles_map' : e.handle = t

\* C12: a task cancelled while it still sleeps never calls on_alert_to_fire (it
\* ends without having left its sleep); a task cancelled after its sleep has
\* ended goes on unchanged and completes its call of on_alert_to_fire.
C12_CancellationRace ==
    [][\A t \in DOMAIN tasks :
          /\ (tasks[t].state = "sleeping" /\ Cancelled(t)) =>
                (t \notin DOMAIN tasks' \/ tasks'[t].state = "aborted")
          /\ (tasks[t].state = "aborted" /\ t \in DOMAIN tasks') =>
                tasks'[t].state = "aborted"
          /\ tasks[t].state = "running" =>
                \/ TaskCall(t)
                \/ t \in DOMAIN tasks' /\ tasks'[t] = tasks[t]
          /\ (t \in DOMAIN tasks' /\ tasks'[t].state = "done") =>
                tasks[t].state \in {"running", "done"}]_vars

C12_Witness ==
    \E t \in DOMAIN tasks :
        /\ tasks[t].state = "running"
        /\ ~\E e \in thread_handles_map : e.handle = t
        /\ pc = "idle"

\* ---------------------------------------------------------------- persistence
\* a mutated serialization that leaves out the games without alerts
SerializeNonEmpty(m) ==
    LET gs == SetToSeq({g \in DOMAIN m : m[g] # {}})
    IN [kind |-> "text",
        entries |-> [i \in 1..Len(gs) |->
                        [game_id |-> gs[i], alerts |-> SetToSeq(m[gs[i]])]],
        complete |-> TRUE]

\* serde_json::to_string of the alerts map: one entry per game, the alerts of the
\* game as a list; complete says that the text was written to its end
Serialize(m) ==
    [kind |-> "text",
     entries |-> [i \in 1..Cardinality(DOMAIN m) |->
                     [game_id |-> SetToSeq(DOMAIN m)[i],
                      alerts |-> SetToSeq(m[SetToSeq(DOMAIN m)[i]])]],
     complete |-> TRUE]

\* the text cut after its first n entries
Truncated(text, n) ==
    [kind |-> "text", entries |-> SubSeq(text.entries, 1, n), complete |-> FALSE]

\* the HashSet a list of alerts deserializes to: the alerts are inserted in turn
RECURSIVE AlertsFromList(_)
AlertsFromList(list) ==
    IF list = <<>> THEN {}
    ELSE Insert(AlertsFromList(SubSeq(list, 1, Len(list) - 1)), list[Len(list)])

\* serde_json::from_str: a text that is not complete is an error
Deserialize(text) ==
    IF ~text.complete THEN [ok |-> FALSE]
    ELSE [ok |-> TRUE,
          map |-> [g \in {text.entries[i].game_id : i \in DOMAIN text.entries} |->
                     AlertsFromList(
                        (CHOOSE e \in Range(text.entries) : e.game_id = g).alerts)]]

\* a mutated load that hands over whatever entries the text holds
LoadPartial(f) ==
    IF f.kind = "missing" THEN EmptyMap
    ELSE Deserialize([f EXCEPT !.complete = TRUE]).map

\* AlertLoader::load
Load(f) ==
    IF f.kind = "missing" THEN EmptyMap
    ELSE IF ~Deserialize(f).ok THEN EmptyMap
    ELSE Deserialize(f).map

\* the persistence task: the interval ticks, the task locks alerts_map and
\* persist_alerts_map serializes it; fs::write creates (empties) the file, or
\* fails to and the error is logged
PersistTick ==
    /\ RegistryFree
    /\ \E created \in BOOLEAN :
          IF created
          THEN /\ file' = Truncated(Serialize(alerts_map), 0)
               /\ saver' = "writing"
          ELSE /\ file' = file
               /\ saver' = "waiting"
    /\ UNCHANGED <<alerts_map, thread_handles_map, tasks, games, fetch_failed, pc,
                   alerts_to_fire, probe>>

\* a mutated end of the write in which an error ends the persistence task
PersistWrittenStopping ==
    /\ saver = "writing"
    /\ \/ file' = Serialize(alerts_map) /\ saver' = "waiting"
       \/ /\ \E n \in 0..Len(Serialize(alerts_map).entries) :
                file' = Truncated(Serialize(alerts_map), n)
          /\ saver' = "stopped"
    /\ UNCHANGED <<alerts_map, thread_handles_map, tasks, games, fetch_failed, pc,
                   alerts_to_fire, probe>>

\* the persistence task: fs::write returns, with the whole text written or with
\* an error after a part of it; the lock of alerts_map is released
PersistWritten ==
    /\ saver = "writing"
    /\ \/ file' = Serialize(alerts_map)
       \/ \E n \in 0..Len(Serialize(alerts_map).entries) :
             file' = Truncated(Serialize(alerts_map), n)
    /\ saver' = "waiting"
    /\ UNCHANGED <<alerts_map, thread_handles_map, tasks, games, fetch_failed, pc,
                   alerts_to_fire, probe>>

\* the process stops and is started again: AlertController::new loads the file
RestartCall ==
    /\ alerts_map' = Load(file)
    /\ thread_handles_map' = {}
    /\ tasks' = EmptyMap
    /\ games' = EmptyMap
    /\ fetch_failed' = FALSE
    /\ pc' = "idle"
    /\ alerts_to_fire' = <<>>
    /\ saver' = "waiting"
    /\ UNCHANGED file

Restart == RestartCall /\ UNCHANGED probe

NextPersist ==
    \/ PoolGames
    \/ PoolWaitedPlayers
    \/ CleanAlerts
    \/ GetAlertsToFire
    \/ FireAlert
    \/ \E t \in 1..MaxHandles : TaskExpire(t)
    \/ \E a \in BotAlerts("g2") : AddAlert("g2", a) /\ UNCHANGED probe
    \/ \E r \in BotRooms, u \in BotUsers : RemoveAlerts("g2", r, u) /\ UNCHANGED probe
    \/ PersistTick
    \/ PersistWritten
    \/ Restart

SpecPersist == Init /\ [][NextPersist]_vars

\* C13: while a file write of the persistence task is in flight the mutex of
\* alerts_map is not held: remove_alerts (when the controller is free) and the
\* steps of update_alerts that lock alerts_map can proceed.
C13_NoLockAcrossWrite ==
    saver = "writing" =>
        /\ ControllerFree => ENABLED RemoveAlerts("g2", "r1", "u1")
        /\ pc = "synced" => ENABLED CleanAlerts
        /\ pc = "cleaned" => ENABLED GetAlertsToFire

\* C14: update_alerts holds the mutex of alerts_map for one group at a time: no
\* step of it that locks alerts_map handles more than one group, and while it
\* has several groups to handle a mutating call (remove_alerts) can take the
\* registry between two of its steps.
C14_PerGroupCriticalSections ==
    /\ [][/\ CleanStep => Cardinality(GamesToClean(alerts_map, games)) <= 1
          /\ EvaluateStep => Cardinality(GamesToScan(alerts_map, games)) <= 1]_vars
    /\ []((/\ pc \in {"cleaned", "evaluated"}
            /\ Cardinality(GamesToScan(alerts_map, games)) >= 2)
              => ENABLED RemoveAlerts("g1", "r1", "u1"))

\* ---------------------------------------------------------------- save and load
\* the registries the round trip is tried on: none, one or both games, each
\* with alerts of distinct identities
\* the sets of alerts a group can hold: HashSet keeps one alert per identity
AlertSets ==
    UNION {{{[room_id |-> "r1", player_id |-> id[1], user_id |-> id[2],
              notified |-> f[id][1], delay |-> f[id][2],
              player_url |-> PlayerUrl(id[1])] : id \in ids}
            : f \in [ids -> BOOLEAN \X Delays]}
           : ids \in {T \in SUBSET (Players \X Users) : Cardinality(T) <= MaxAlerts}}

Registries ==
    UNION {{m \in [gs -> AlertSets] : Cardinality(AllAlerts(m)) <= MaxAlerts}
           : gs \in SUBSET Games}

InitRoundTrip ==
    /\ alerts_map \in Registries
    /\ thread_handles_map = {}
    /\ tasks = EmptyMap
    /\ games = EmptyMap
    /\ fetch_failed = FALSE
    /\ pc = "idle"
    /\ alerts_to_fire = <<>>
    /\ probe = NoProbe
    /\ file = NoFile
    /\ saver = "waiting"

NextRoundTrip == PersistTick \/ PersistWritten \/ Restart

SpecRoundTrip == InitRoundTrip /\ [][NextRoundTrip]_vars

\* C15: when persist_alerts_map has written the registry, load of the file gives
\* a registry with the same games and, for each game, the same alerts with the
\* same room, player, user, notified, delay and player_url.
C15_RoundTrip ==
    [][(saver = "writing" /\ saver' = "waiting" /\ file'.complete) =>
          /\ DOMAIN Load(file') = DOMAIN alerts_map
          /\ \A g \in DOMAIN alerts_map : Load(file')[g] = alerts_map[g]]_vars

C15_Witness ==
    /\ saver = "waiting"
    /\ file.kind = "text"
    /\ file.complete
    /\ Load(file) = alerts_map
    /\ Cardinality(DOMAIN alerts_map) >= 2
    /\ \E g \in DOMAIN alerts_map : \E a \in alerts_map[g] : a.notified /\ a.delay = 2
    /\ \E g \in DOMAIN alerts_map : alerts_map[g] = {}

\* C16: load never fails: when the alerts file is missing or its text cannot be
\* decoded, load returns an empty map and AlertController::new starts with an
\* empty registry.
C16_LoadNeverFails ==
    /\ []((file.kind = "missing" \/ ~file.complete) => Load(file) = EmptyMap)
    /\ [][(Restart /\ (file.kind = "missing" \/ ~file.complete)) =>
             alerts_map' = EmptyMap]_vars

C16_Witness ==
    /\ file.kind = "text"
    /\ ~file.complete
    /\ \E i \in DOMAIN file.entries : file.entries[i].alerts # <<>>
    /\ alerts_map = EmptyMap
    /\ saver = "waiting"
    /\ pc = "idle"

\* C17: a save that fails leaves the registry (and the task table) as they were
\* and the persistence task goes back to waiting for its next tick; the tick is
\* then taken again, and a save that succeeds writes the registry of its own
\* tick, whatever the file held.
C17_SaveFailureSwallowed ==
    /\ [][(saver = "writing" /\ saver' # "writing" /\ ~Restart) =>
             /\ saver' = "waiting"
             /\ alerts_map' = alerts_map
             /\ thread_handles_map' = thread_handles_map
             /\ tasks' = tasks
             /\ file'.complete => file' = Serialize(alerts_map)]_vars
    /\ [](saver # "writing" => ENABLED PersistTick)

C17_Witness ==
    /\ saver = "waiting"
    /\ file.kind = "text"
    /\ ~file.complete
    /\ thread_handles_map # {}
    /\ \E g \in DOMAIN alerts_map : \E a \in alerts_map[g] :
          \E i \in DOMAIN file.entries :
              file.entries[i].game_id = g /\ file.entries[i].alerts = <<a>>

\* C18: persist_alerts_map is atomic: whenever the content of the file changes,
\* what load returns from it (were the write to fail or to be interrupted
\* there) is what load returned before the change or the registry being written.
C18_AtomicPersist ==
    [][file' # file => (Load(file') = Load(file) \/ Load(file') = alerts_map)]_vars

\* C19 as the claim states it: the alert a task has passed to on_alert_to_fire
\* has notified = TRUE.
C19_PayloadNotified ==
    \A t \in DOMAIN tasks : Done(t) => tasks[t].alert.notified

\* C19: the alert a task passes to on_alert_to_fire is the clone the scan took
\* before it set the flag: when the task is spawned the registry holds the
\* alert with notified = TRUE, and the task holds the same room, player, user,
\* delay and player_url with notified = FALSE; it passes that value unchanged.
C19_PayloadAsScanned ==
    /\ [][ReturnStep =>
             \A t \in DOMAIN tasks' \ DOMAIN tasks :
                 \E a \in alerts_map'[tasks'[t].game_id] :
                     /\ a.notified
                     /\ tasks'[t].alert = [a EXCEPT !.notified = FALSE]]_vars
    /\ [][\A t \in DOMAIN tasks :
             (tasks[t].state = "sleeping" /\ t \in DOMAIN tasks'
                /\ tasks'[t].state = "done") =>
                  /\ tasks'[t].alert = tasks[t].alert
                  /\ ~tasks'[t].alert.notified]_vars

C19_Witness ==
    \E t \in DOMAIN tasks :
        /\ Done(t)
        /\ ~tasks[t].alert.notified
        /\ tasks[t].game_id \in DOMAIN alerts_map
        /\ \E a \in alerts_map[tasks[t].game_id] :
              a.notified /\ tasks[t].alert = [a EXCEPT !.notified = FALSE]

\* C20: a game whose phase is "end", or that the server no longer lists, is
\* absent from the games map after pool_games; the update_alerts that follows
\* removes the game's entry from the registry with all its alerts, removes the
\* task table entries of these alerts and leaves none of their tasks pending,
\* and when it returns the registry holds no such game.
C20_CleanupWhenGameEnds ==
    [][/\ (pc = "idle" /\ pc' = "pooled") =>
             \A detail \in [Games -> DetailOutcomes] :
                 DOMAIN games' = PooledGames(TRUE, detail) =>
                     \A g \in Games :
                         detail[g] \in {"end", "unlisted"} => g \notin DOMAIN games'
       /\ CleanStep =>
             \A g \in DOMAIN alerts_map \ DOMAIN games :
                 /\ g \notin DOMAIN alerts_map'
                 /\ \A a \in alerts_map[g] :
                       /\ Entries(thread_handles_map', a) = {}
                       /\ PendingFor(tasks', a) = {}
       /\ ReturnStep => \A g \in Games \ DOMAIN games : g \notin DOMAIN alerts_map']_vars

C20_Witness ==
    /\ pc = "synced"
    /\ ~fetch_failed
    /\ "g1" \in DOMAIN games
    /\ "g2" \in DOMAIN alerts_map \ DOMAIN games
    /\ \E a \in alerts_map["g2"] : \E e \in thread_handles_map :
          /\ a.notified
          /\ KeyMatch(e.key, a)
          /\ Pending(e.handle)
          /\ tasks[e.handle].game_id = "g2"

\* C21: add_alert(g, a) on a registry without an entry for g creates the entry
\* with exactly a; on an entry that holds no alert of a's identity it adds a; in
\* both cases the other alerts and the other games are unchanged.
C21_AddCreatesOrExtends ==
    (/\ probe.op = "add_alert"
     /\ \/ probe.game_id \notin DOMAIN probe.before
        \/ \A b \in probe.before[probe.game_id] : ~SameTriple(b, probe.alert)) =>
        /\ DOMAIN alerts_map = DOMAIN probe.before \cup {probe.game_id}
        /\ alerts_map[probe.game_id] =
              (IF probe.game_id \in DOMAIN probe.before
               THEN probe.before[probe.game_id] ELSE {}) \cup {probe.alert}
        /\ \A g \in DOMAIN probe.before :
              g # probe.game_id => alerts_map[g] = probe.before[g]

C21_Witness ==
    /\ probe.op = "add_alert"
    /\ probe.game_id \in DOMAIN probe.before
    /\ probe.before[probe.game_id] # {}
    /\ probe.alert \notin probe.before[probe.game_id]
    /\ alerts_map[probe.game_id] = probe.before[probe.game_id] \cup {probe.alert}
    /\ Cardinality(alerts_map[probe.game_id]) = 2

\* C22: remove_alerts for a game that has no entry in the registry changes
\* nothing: no entry is changed and none is created for the game.
C22_RemoveAbsentGroupNoOp ==
    (probe.op = "remove_alerts" /\ probe.game_id \notin DOMAIN probe.before) =>
        alerts_map = probe.before

C22_Witness ==
    /\ probe.op = "remove_alerts"
    /\ probe.game_id \notin DOMAIN probe.before
    /\ \E g \in DOMAIN probe.before : \E a \in probe.before[g] :
          /\ a.room_id = probe.room_id
          /\ a.user_id = probe.user_id
          /\ a \in alerts_map[g]

\* C23: add_alert of an alert whose room, player and user are those of an alert
\* the game already holds stores the new alert: after the call the set holds the
\* alert that was supplied, with its delay and its notified.
C23_AddReplacesDuplicate ==
    (/\ probe.op = "add_alert"
     /\ probe.game_id \in DOMAIN probe.before
     /\ \E b \in probe.before[probe.game_id] : SameTriple(b, probe.alert)) =>
        probe.alert \in alerts_map[probe.game_id]

\* ---------------------------------------------------------------- register
\* Player.name of the players on the server
PlayerName(p) == IF p = "p1" THEN "Alice" ELSE "Bob"

\* let week_minutes = 7 * 24 * 60
week_minutes == 7 * 24 * 60

\* the arguments of the register commands that are sent
RegisterNames == {"Alice", "Bob", "alice"}
RegisterDelays == {0, 1, week_minutes, week_minutes + 1}

\* a mutated validation that accepts any delay
ValidateAnyDelay(game_id, player_name, delay, gm) ==
    IF game_id \notin DOMAIN gm THEN [ok |-> FALSE, error |-> "GameNotFound"]
    ELSE LET found == {p \in GamePlayers(game_id) : PlayerName(p) = player_name}
         IN IF found = {} THEN [ok |-> FALSE, error |-> "PlayerNotFound"]
            ELSE LET p == CHOOSE x \in found : TRUE
                 IN [ok |-> TRUE, player_id |-> p, player_url |-> PlayerUrl(p)]

\* validate_and_get_player: the delay, then the game, then the name of the player
validate_and_get_player(game_id, player_name, delay, gm) ==
    IF delay = 0 \/ delay > week_minutes THEN [ok |-> FALSE, error |-> "InvalidDelay"]
    ELSE IF game_id \notin DOMAIN gm THEN [ok |-> FALSE, error |-> "GameNotFound"]
    ELSE LET found == {p \in GamePlayers(game_id) : PlayerName(p) = player_name}
         IN IF found = {} THEN [ok |-> FALSE, error |-> "PlayerNotFound"]
            ELSE LET p == CHOOSE x \in found : TRUE
                 IN [ok |-> TRUE, player_id |-> p, player_url |-> PlayerUrl(p)]

\* format_register_error
format_register_error(error) ==
    CASE error = "InvalidDelay" -> "invalid_delay"
      [] error = "GameNotFound" -> "game_not_found"
      [] error = "PlayerNotFound" -> "player_not_found"

\* handle_register: the CommandResult, an Option being a set of at most one element
handle_register(room_id, user_id, gm, game_id, player_name, delay) ==
    LET v == validate_and_get_player(game_id, player_name, delay, gm)
    IN IF ~v.ok
       THEN [response |-> format_register_error(v.error),
             alerts_to_remove |-> {},
             alert_to_add |-> {}]
       ELSE [response |-> "successful_register",
             alerts_to_remove |-> {},
             alert_to_add |-> {<<game_id,
                                 [player_id |-> v.player_id, room_id |-> room_id,
                                  user_id |-> user_id, notified |-> FALSE,
                                  delay |-> delay, player_url |-> v.player_url]>>}]

\* the alerts map after the add_alert and remove_alerts calls of handle_matrix_message
AppliedResult(m, result) ==
    LET added == IF result.alert_to_add = {} THEN m
                 ELSE LET e == CHOOSE x \in result.alert_to_add : TRUE
                      IN AddedMap(m, e[1], e[2])
    IN IF result.alerts_to_remove = {} THEN added
       ELSE LET r == CHOOSE x \in result.alerts_to_remove : TRUE
            IN RemovedMap(added, r[1], r[2], r[3])

\* handle_matrix_message for a register command sent from a room by a user
RegisterMessage(room_id, user_id, game_id, player_name, delay) ==
    LET result == handle_register(room_id, user_id, games, game_id, player_name, delay)
    IN /\ ControllerFree
       /\ RegistryFree
       /\ Cardinality(AllAlerts(AppliedResult(alerts_map, result))) <= MaxAlerts
       /\ alerts_map' = AppliedResult(alerts_map, result)
       /\ probe' = [op |-> "register", game_id |-> game_id, player_name |-> player_name,
                    delay |-> delay, room_id |-> room_id, user_id |-> user_id,
                    result |-> result, before |-> alerts_map]
       /\ UNCHANGED <<thread_handles_map, tasks, games, fetch_failed, pc,
                      alerts_to_fire, file, saver>>

\* the games maps the poll task leaves behind when it waits for its next tick
PolledGames ==
    UNION {{[g \in gs |-> w[g]] : w \in [Games -> SUBSET Players]} : gs \in SUBSET Games}

\* the bot with an empty registry after some polls
InitRegister ==
    /\ alerts_map = EmptyMap
    /\ thread_handles_map = {}
    /\ tasks = EmptyMap
    /\ games \in {gm \in PolledGames : \A g \in DOMAIN gm : gm[g] \subseteq GamePlayers(g)}
    /\ fetch_failed = FALSE
    /\ pc = "idle"
    /\ alerts_to_fire = <<>>
    /\ probe = NoProbe
    /\ file = NoFile
    /\ saver = "waiting"

NextRegister ==
    \E room_id \in BotRooms, user_id \in BotUsers, game_id \in Games,
       player_name \in RegisterNames, delay \in RegisterDelays :
          RegisterMessage(room_id, user_id, game_id, player_name, delay)

SpecRegister == InitRegister /\ [][NextRegister]_vars

\* C24: a register command yields an alert to add only when its delay is between
\* 1 and 10080 minutes, its game is in the games map and its player name is the
\* name of a player of that game; the alert then carries the room and user of the
\* sender, the id of that player, the delay and notified=false. In every other
\* case the response is an error, there is no alert to add and none to remove,
\* and the registry is left as it was.
C24_RegisterValidation ==
    probe.op = "register" =>
        LET valid == /\ 1 <= probe.delay /\ probe.delay <= 10080
                     /\ probe.game_id \in DOMAIN games
                     /\ \E p \in GamePlayers(probe.game_id) :
                           PlayerName(p) = probe.player_name
        IN /\ valid <=> probe.result.alert_to_add # {}
           /\ valid =>
                 \E p \in GamePlayers(probe.game_id) :
                    /\ PlayerName(p) = probe.player_name
                    /\ probe.result.alert_to_add =
                          {<<probe.game_id,
                             [player_id |-> p, room_id |-> probe.room_id,
                              user_id |-> probe.user_id, notified |-> FALSE,
                              delay |-> probe.delay, player_url |-> PlayerUrl(p)]>>}
           /\ ~valid =>
                 /\ probe.result.response
                       \in {"invalid_delay", "game_not_found", "player_not_found"}
                 /\ probe.result.alerts_to_remove = {}
                 /\ alerts_map = probe.before

C24_Witness ==
    /\ probe.op = "register"
    /\ probe.delay = 10081
    /\ probe.game_id \in DOMAIN games
    /\ \E p \in GamePlayers(probe.game_id) : PlayerName(p) = probe.player_name
    /\ probe.result.response = "invalid_delay"
    /\ probe.result.alert_to_add = {}
    /\ AllAlerts(alerts_map) # {}
    /\ alerts_map = probe.before

\* ---------------------------------------------------------------- task table
\* C25: when update_alerts has looked at an alert of the registry whose player is
\* not waited for in the polled game, no pending task notifies that subscription
\* for that game when update_alerts returns.
C25_NoStaleNotification ==
    [][ReturnStep =>
          \A g \in DOMAIN alerts_map' \cap DOMAIN games : \A a \in alerts_map'[g] :
              ~Active(g, a) =>
                  \A t \in PendingFor(tasks', a) : tasks'[t].game_id # g]_vars

\* the pending tasks that were spawned for alert a of game g
PendingIn(tsks, g, a) == {t \in PendingFor(tsks, a) : tsks[t].game_id = g}

\* the handles the task table holds for the subscription of alert a
HandlesFor(handles, a) == {e.handle : e \in {x \in handles : SameTriple(x.key, a)}}

\* the (game, alert) pairs of the registry that are armed while their player is
\* still waited for
ArmedActive == UNION {{<<g, a>> : a \in {x \in alerts_map[g] : Active(g, x) /\ x.notified}} :
                        g \in DOMAIN alerts_map}

\* the armed pairs whose room, player and user are registered under one game only
ArmedActiveAlone ==
    {p \in ArmedActive :
        \A g \in DOMAIN alerts_map \ {p[1]} : \A a \in alerts_map[g] : ~SameTriple(a, p[2])}

\* C26 (as claimed): an update_alerts that finds an alert already notified and its
\* player still waited for leaves the alert in the registry, does not put it in
\* the fire-list, spawns no task for it and aborts none: the task armed by the
\* first call of the turn stays the only one.
C26_NoDuplicateWithinTurn ==
    [][/\ (CleanStep \/ EvaluateStep) =>
            \A p \in ArmedActive :
                /\ p[2] \in alerts_map'[p[1]]
                /\ \A i \in DOMAIN alerts_to_fire' :
                      ~(alerts_to_fire'[i][1] = p[1]
                          /\ SameTriple(alerts_to_fire'[i][2], p[2]))
                /\ PendingIn(tasks', p[1], p[2]) = PendingIn(tasks, p[1], p[2])
       /\ ReturnStep =>
            \A p \in ArmedActive :
                (\A i \in DOMAIN alerts_to_fire :
                    ~(alerts_to_fire[i][1] = p[1]
                        /\ SameTriple(alerts_to_fire[i][2], p[2]))) =>
                    /\ p[2] \in alerts_map'[p[1]]
                    /\ PendingIn(tasks', p[1], p[2]) = PendingIn(tasks, p[1], p[2])]_vars

\* C26 (amended): the same, for an alert whose room, player and user are not
\* registered under another game; no update_alerts of the turn after the first
\* puts it in the fire-list, spawns a task for it or aborts its task.
C26_NoDuplicateWithinTurnAlone ==
    [][/\ (CleanStep \/ EvaluateStep) =>
            \A p \in ArmedActiveAlone :
                /\ p[2] \in alerts_map'[p[1]]
                /\ \A i \in DOMAIN alerts_to_fire' :
                      ~SameTriple(alerts_to_fire'[i][2], p[2])
                /\ PendingFor(tasks', p[2]) = PendingFor(tasks, p[2])
                /\ HandlesFor(thread_handles_map', p[2])
                      = HandlesFor(thread_handles_map, p[2])
       /\ ReturnStep =>
            \A p \in ArmedActiveAlone :
                (\A i \in DOMAIN alerts_to_fire :
                    ~SameTriple(alerts_to_fire[i][2], p[2])) =>
                    /\ p[2] \in alerts_map'[p[1]]
                    /\ PendingFor(tasks', p[2]) = PendingFor(tasks, p[2])
                    /\ HandlesFor(thread_handles_map', p[2])
                          = HandlesFor(thread_handles_map, p[2])]_vars

\* a second update_alerts of the turn is about to return: the alert is armed, its
\* task is pending, and another alert is being scheduled in the same call
C26_Witness ==
    /\ pc = "evaluated"
    /\ alerts_to_fire # <<>>
    /\ \E p \in ArmedActiveAlone :
          /\ \A i \in DOMAIN alerts_to_fire : ~SameTriple(alerts_to_fire[i][2], p[2])
          /\ PendingFor(tasks, p[2]) # {}

\* ---------------------------------------------------------------- turns
\* the subscription of an alert under a game
Subscription(g, a) ==
    <<g, [room_id |-> a.room_id, player_id |-> a.player_id, user_id |-> a.user_id]>>

\* the subscriptions the scan resets and those it arms
ResetNow == UNION {{Subscription(g, a) : a \in ResetOf(alerts_map, games, g)} :
                     g \in GamesToScan(alerts_map, games)}
ArmedNow == UNION {{Subscription(p[1], p[2]) : p \in FiredOf(alerts_map, games, g)} :
                     g \in GamesToScan(alerts_map, games)}

\* the poll loop and register commands; probe.reset remembers the subscriptions
\* that a scan has reset and that were not armed or registered since, and
\* probe.rearmed those of them that the last scan armed
InitTurns ==
    /\ alerts_map = EmptyMap
    /\ thread_handles_map = {}
    /\ tasks = EmptyMap
    /\ games = EmptyMap
    /\ fetch_failed = FALSE
    /\ pc = "idle"
    /\ alerts_to_fire = <<>>
    /\ probe = [op |-> "turns", reset |-> {}, rearmed |-> {}]
    /\ file = NoFile
    /\ saver = "waiting"

NextTurns ==
    \/ PoolGames
    \/ PoolWaitedPlayers
    \/ CleanAlerts
    \/ GetAlertsToFireCall
          /\ probe' = [probe EXCEPT !.reset = (@ \cup ResetNow) \ ArmedNow,
                                    !.rearmed = probe.reset \cap ArmedNow]
    \/ FireAlert
    \/ \E t \in 1..MaxHandles : TaskExpire(t)
    \/ \E g \in Games : \E a \in BotAlerts(g) :
          /\ ~a.notified
          /\ AddAlert(g, a)
          /\ probe' = IF alerts_map' = alerts_map THEN probe
                      ELSE [probe EXCEPT !.reset = @ \ {Subscription(g, a)}]

SpecTurns == InitTurns /\ [][NextTurns]_vars

\* C27: an alert that a scan has reset to notified=false is armed again by the
\* next update_alerts that finds its player waited for: the scan sets notified=true
\* and puts the alert in the fire-list, and when update_alerts returns a task
\* spawned by this call sleeps for the alert with its delay, held by the task table.
C27_RenotifiedNextTurn ==
    [][/\ EvaluateStep =>
            \A g \in DOMAIN alerts_map \cap DOMAIN games : \A a \in alerts_map[g] :
                (Subscription(g, a) \in probe.reset /\ Active(g, a)) =>
                    /\ ~a.notified
                    /\ [a EXCEPT !.notified = TRUE] \in alerts_map'[g]
                    /\ <<g, a>> \in Range(alerts_to_fire')
                    /\ Subscription(g, a) \in probe'.rearmed
       /\ ReturnStep =>
            \A i \in DOMAIN alerts_to_fire :
                Subscription(alerts_to_fire[i][1], alerts_to_fire[i][2]) \in probe.rearmed =>
                    \E t \in DOMAIN tasks' \ DOMAIN tasks :
                        /\ tasks'[t].state = "sleeping"
                        /\ tasks'[t].alert = alerts_to_fire[i][2]
                        /\ tasks'[t].alert.delay = alerts_to_fire[i][2].delay
                        /\ HandlesFor(thread_handles_map', alerts_to_fire[i][2]) = {t}]_vars

C27_Witness ==
    /\ pc = "idle"
    /\ \E g \in DOMAIN alerts_map : \E a \in alerts_map[g] :
          /\ Subscription(g, a) \in probe.rearmed
          /\ a.notified
          /\ Active(g, a)
          /\ \E t \in PendingFor(tasks, a) :
                tasks[t].game_id = g /\ HandlesFor(thread_handles_map, a) = {t}

\* ---------------------------------------------------------------- expiry
\* the sleep of task t ends in this step and the task calls on_alert_to_fire
Expired(t) ==
    /\ Pending(t)
    /\ pc' = pc
    /\ ~(t \in DOMAIN tasks' /\ tasks'[t].state = "sleeping")

\* C28 (as claimed): when the delay of a task has expired and the task has called
\* on_alert_to_fire, the task table holds no entry for its alert.
C28_EntryDroppedOnExpiry ==
    [][\A t \in 1..MaxHandles :
          Expired(t) => HandlesFor(thread_handles_map', tasks[t].alert) = {}]_vars

\* C28 (amended): the expiry of a task leaves the task table as it is: the entry
\* of the alert keeps the handle of the finished task, and such an entry leaves
\* the table or gets another handle only inside a later update_alerts.
C28_EntryKeptOnExpiry ==
    [][/\ \A t \in 1..MaxHandles :
             Expired(t) =>
                 /\ thread_handles_map' = thread_handles_map
                 /\ HandlesFor(thread_handles_map', tasks[t].alert) = {t}
                 /\ t \in DOMAIN tasks' /\ tasks'[t].state = "done"
       /\ \A e \in thread_handles_map :
             (Done(e.handle) /\ e \notin thread_handles_map') =>
                 CleanStep \/ EvaluateStep \/ ReturnStep]_vars

\* a finished task is still held by the task table while its alert stays armed
C28_Witness ==
    \E e \in thread_handles_map :
        /\ Done(e.handle)
        /\ \E g \in DOMAIN alerts_map : \E a \in alerts_map[g] :
              SameTriple(a, e.key) /\ a.notified

\* C29: as long as a task is pending the task table maps its alert to its handle,
\* and a step that takes the handle of a pending task out of the table, or puts
\* another handle in its place, has aborted the task: it is no longer pending and
\* has not called on_alert_to_fire.
C29_PendingTaskHeld ==
    /\ [](\A t \in DOMAIN tasks :
             tasks[t].state = "sleeping" => HandlesFor(thread_handles_map, tasks[t].alert) = {t})
    /\ [][\A e \in thread_handles_map :
             (Pending(e.handle) /\ HandlesFor(thread_handles_map', e.key) # {e.handle}) =>
                 /\ CleanStep \/ EvaluateStep \/ ReturnStep
                 /\ \/ e.handle \notin DOMAIN tasks'
                    \/ tasks'[e.handle].state = "aborted"]_vars

\* the scan is about to reset an alert whose pending task the table holds, while
\* the table holds the pending task of another alert that stays armed
C29_Witness ==
    /\ pc = "cleaned"
    /\ \E e1, e2 \in thread_handles_map :
          /\ e1 # e2
          /\ Pending(e1.handle) /\ Pending(e2.handle)
          /\ \E g \in GamesToScan(alerts_map, games) :
                \E a \in ResetOf(alerts_map, games, g) : SameTriple(a, e1.key)
          /\ \A g \in GamesToScan(alerts_map, games) :
                \A a \in ResetOf(alerts_map, games, g) : ~SameTriple(a, e2.key)

\* C30: the notified flag of an alert of the registry goes from false to true only
\* in the scan of update_alerts, for an alert whose player is waited for in the
\* polled game; the scan puts that alert in the fire-list, the fire-list is kept
\* until fire_alert runs, and fire_alert spawns for each of its alerts a task that
\* the task table holds when update_alerts returns.
C30_QuietToArmed ==
    [][/\ \A g \in DOMAIN alerts_map \cap DOMAIN alerts_map' : \A a \in alerts_map[g] :
             (~a.notified /\ \E b \in alerts_map'[g] : SameTriple(b, a) /\ b.notified) =>
                 /\ EvaluateStep
                 /\ Active(g, a)
                 /\ <<g, a>> \in Range(alerts_to_fire')
       /\ (pc = "evaluated" /\ ~ReturnStep) => alerts_to_fire' = alerts_to_fire
       /\ ReturnStep =>
             \A i \in DOMAIN alerts_to_fire :
                 \E t \in DOMAIN tasks' \ DOMAIN tasks :
                     /\ tasks'[t].state = "sleeping"
                     /\ tasks'[t].alert = alerts_to_fire[i][2]
                     /\ HandlesFor(thread_handles_map', alerts_to_fire[i][2]) = {t}]_vars

\* the scan has just armed an alert and its task is not spawned yet
C30_Witness ==
    /\ pc = "evaluated"
    /\ \E i \in DOMAIN alerts_to_fire :
          LET g == alerts_to_fire[i][1]
              a == alerts_to_fire[i][2]
          IN /\ ~a.notified
             /\ Active(g, a)
             /\ [a EXCEPT !.notified = TRUE] \in alerts_map[g]
             /\ PendingFor(tasks, a) = {}

\* ---------------------------------------------------------------- the update loop
\* the updates of one scan, game after game, as <<game, alert, new notified>>
RECURSIVE UpdateList(_, _, _)
UpdateList(m, gm, order) ==
    IF order = <<>> THEN <<>>
    ELSE LET g == Head(order)
             ups == SetToSeq(AlertsToUpdate(m[g], gm[g]))
         IN [i \in 1..Len(ups) |-> <<g, ups[i][1], ups[i][2]>>]
               \o UpdateList(m, gm, Tail(order))

\* get_alerts_to_fire locks alerts_map and scans it: the fire-list is filled and
\* the tasks of the alerts to reset are aborted; the updates of the flags follow
ScanLock ==
    /\ pc = "cleaned"
    /\ RegistryFree
    /\ LET scan == GamesToScan(alerts_map, games)
           reset == UNION {ResetOf(alerts_map, games, g) : g \in scan}
       IN /\ \E order \in Orders(scan) :
                /\ alerts_to_fire' = FireList(alerts_map, games, order)
                /\ probe' = [probe EXCEPT !.before = alerts_map,
                                          !.updates = UpdateList(alerts_map, games, order)]
          /\ thread_handles_map' = RemoveEntries(thread_handles_map, reset)
          /\ tasks' = Collect(Abort(tasks, RemovedHandles(thread_handles_map, reset)),
                              thread_handles_map')
    /\ pc' = "scanning"
    /\ UNCHANGED <<alerts_map, games, fetch_failed, file, saver>>

\* alerts.remove(&alert)
ScanRemove ==
    /\ pc = "scanning"
    /\ probe.updates # <<>>
    /\ LET u == Head(probe.updates)
       IN alerts_map' = [alerts_map EXCEPT ![u[1]] = Remove(@, u[2])]
    /\ pc' = "removed"
    /\ UNCHANGED <<thread_handles_map, tasks, games, fetch_failed, alerts_to_fire,
                   probe, file, saver>>

\* alert.notified = notified; alerts.insert(alert)
ScanInsert ==
    /\ pc = "removed"
    /\ LET u == Head(probe.updates)
       IN alerts_map' = [alerts_map EXCEPT
                            ![u[1]] = Insert(@, [u[2] EXCEPT !.notified = u[3]])]
    /\ probe' = [probe EXCEPT !.updates = Tail(@)]
    /\ pc' = "scanning"
    /\ UNCHANGED <<thread_handles_map, tasks, games, fetch_failed, alerts_to_fire,
                   file, saver>>

\* get_alerts_to_fire returns: the guard of alerts_map is dropped
ScanUnlock ==
    /\ pc = "scanning"
    /\ probe.updates = <<>>
    /\ pc' = "evaluated"
    /\ UNCHANGED <<alerts_map, thread_handles_map, tasks, games, fetch_failed,
                   alerts_to_fire, probe, file, saver>>

\* get_alerts_map, called by handle_matrix_message under the controller mutex
Snapshot ==
    /\ ControllerFree
    /\ RegistryFree
    /\ probe' = [probe EXCEPT !.snapshot = alerts_map]
    /\ UNCHANGED <<alerts_map, thread_handles_map, tasks, games, fetch_failed, pc,
                   alerts_to_fire, file, saver>>

InitReplace ==
    /\ alerts_map = EmptyMap
    /\ thread_handles_map = {}
    /\ tasks = EmptyMap
    /\ games = EmptyMap
    /\ fetch_failed = FALSE
    /\ pc = "idle"
    /\ alerts_to_fire = <<>>
    /\ probe = [op |-> "scan", before |-> EmptyMap, updates |-> <<>>,
                snapshot |-> EmptyMap]
    /\ file = NoFile
    /\ saver = "waiting"

NextReplace ==
    \/ PoolGames
    \/ PoolWaitedPlayers
    \/ CleanAlerts
    \/ ScanLock
    \/ ScanRemove
    \/ ScanInsert
    \/ ScanUnlock
    \/ FireAlert
    \/ \E a \in BotAlerts("g1") : ~a.notified /\ AddAlert("g1", a) /\ UNCHANGED probe
    \/ Snapshot
    \/ PersistTick
    \/ PersistWritten

SpecReplace == InitReplace /\ [][NextReplace]_vars

\* the alerts of m are those of n, whatever their notified flags
SameButNotified(m, n) ==
    /\ DOMAIN m = DOMAIN n
    /\ \A g \in DOMAIN m :
          /\ Cardinality(m[g]) = Cardinality(n[g])
          /\ \A a \in n[g] : \E b \in m[g] :
                SameTriple(a, b) /\ b.delay = a.delay /\ b.player_url = a.player_url

\* C31: while an alert is taken out of its set to be put back with another
\* notified flag, nobody reads the registry: the persistence task is not writing
\* and cannot start, no snapshot can be taken, every whole file that is written
\* and every snapshot holds the registry as it is outside of the loop; when the
\* loop is over the registry is the one the scan started with but for the
\* notified flags it set, with the same delays, urls and set sizes.
C31_ReplaceAtomic ==
    /\ [](pc \in ScanSteps =>
             /\ saver = "waiting"
             /\ ~ENABLED PersistTick
             /\ ~ENABLED Snapshot)
    /\ [][/\ (saver = "writing" /\ saver' = "waiting" /\ file'.complete) =>
                 /\ pc \notin ScanSteps
                 /\ Load(file') = alerts_map
          /\ probe'.snapshot # probe.snapshot =>
                 /\ pc \notin ScanSteps
                 /\ probe'.snapshot = alerts_map
          /\ (pc = "scanning" /\ pc' = "evaluated") =>
                 /\ SameButNotified(alerts_map, probe.before)
                 /\ alerts_map =
                       [g \in DOMAIN probe.before |->
                           IF g \in GamesToScan(probe.before, games)
                           THEN ApplyUpdates(probe.before[g],
                                             AlertsToUpdate(probe.before[g], games[g]))
                           ELSE probe.before[g]]]_vars

\* an alert is out of its set, between its removal and its insertion, while the
\* alerts file and the last snapshot hold it
C31_Witness ==
    /\ pc = "removed"
    /\ LET u == Head(probe.updates)
       IN /\ \A b \in alerts_map[u[1]] : ~SameTriple(b, u[2])
          /\ file.kind = "text" /\ file.complete
          /\ u[1] \in DOMAIN Load(file)
          /\ \E b \in Load(file)[u[1]] : SameTriple(b, u[2])
          /\ u[1] \in DOMAIN probe.snapshot
          /\ \E b \in probe.snapshot[u[1]] : SameTriple(b, u[2])

\* ---------------------------------------------------------------- no branch taken
\* the alert of game g takes neither branch of the scan
Otherwise(g, a) == (Active(g, a) /\ a.notified) \/ (~Active(g, a) /\ ~a.notified)

\* another alert of the registry shares the task-table entry of a and takes the
\* second branch of the scan
ResetElsewhere(g, a) ==
    \E h \in (DOMAIN alerts_map \cap DOMAIN games) \ {g} : \E b \in alerts_map[h] :
        SameTriple(b, a) /\ b.notified /\ ~Active(h, b)

\* C32: an alert that the scan finds waited for and notified, or not waited for
\* and not notified, stays in the registry as it is and is not put in the
\* fire-list; it has no task spawned and none aborted: the tasks and the table
\* entry of its subscription change in the scan only when an equal alert of
\* another game is reset, and in fire_alert only when the fire-list holds an
\* equal alert.
C32_OtherwiseChangesNothing ==
    [][/\ EvaluateStep =>
            \A g \in DOMAIN alerts_map \cap DOMAIN games : \A a \in alerts_map[g] :
                Otherwise(g, a) =>
                    /\ a \in alerts_map'[g]
                    /\ Cardinality({b \in alerts_map'[g] : SameTriple(b, a)}) = 1
                    /\ \A i \in DOMAIN alerts_to_fire' :
                          ~(alerts_to_fire'[i][1] = g
                              /\ SameTriple(alerts_to_fire'[i][2], a))
                    /\ ~ResetElsewhere(g, a) =>
                          /\ \A t \in DOMAIN tasks :
                                SameTriple(tasks[t].alert, a) =>
                                    t \in DOMAIN tasks' /\ tasks'[t] = tasks[t]
                          /\ PendingFor(tasks', a) = PendingFor(tasks, a)
                          /\ {e \in thread_handles_map' : SameTriple(e.key, a)}
                                = {e \in thread_handles_map : SameTriple(e.key, a)}
       /\ ReturnStep =>
            /\ alerts_map' = alerts_map
            /\ \A g \in DOMAIN alerts_map : \A a \in alerts_map[g] :
                  (\A i \in DOMAIN alerts_to_fire :
                      ~SameTriple(alerts_to_fire[i][2], a)) =>
                      /\ \A t \in DOMAIN tasks :
                            SameTriple(tasks[t].alert, a) =>
                                t \in DOMAIN tasks' /\ tasks'[t] = tasks[t]
                      /\ PendingFor(tasks', a) = PendingFor(tasks, a)
                      /\ {e \in thread_handles_map' : SameTriple(e.key, a)}
                            = {e \in thread_handles_map : SameTriple(e.key, a)}]_vars

\* the scan is about to look at an armed alert whose player is still waited for
\* and whose task is pending, and at a quiet alert whose player is not waited for
C32_Witness ==
    /\ pc = "cleaned"
    /\ \E g \in DOMAIN alerts_map \cap DOMAIN games : \E a \in alerts_map[g] :
          /\ Active(g, a) /\ a.notified
          /\ PendingFor(tasks, a) # {}
          /\ ~ResetElsewhere(g, a)
    /\ \E g \in DOMAIN alerts_map \cap DOMAIN games : \E a \in alerts_map[g] :
          ~Active(g, a) /\ ~a.notified

\* ---------------------------------------------------------------- owner of the task table
\* the poll loop, the commands, the snapshots, the persistence task and restarts
NextTable ==
    \/ PoolGames
    \/ PoolWaitedPlayers
    \/ CleanAlerts
    \/ GetAlertsToFire
    \/ FireAlert
    \/ \E t \in 1..MaxHandles : TaskExpire(t)
    \/ \E a \in BotAlerts("g2") : ~a.notified /\ AddAlert("g2", a) /\ UNCHANGED probe
    \/ \E r \in BotRooms, u \in BotUsers : RemoveAlerts("g2", r, u) /\ UNCHANGED probe
    \/ Snapshot
    \/ PersistTick
    \/ PersistWritten
    \/ Restart

SpecTable == InitReplace /\ [][NextTable]_vars

\* the step aborts a pending task or changes the task table
TableTouched ==
    \/ thread_handles_map' # thread_handles_map
    \/ \E t \in DOMAIN tasks :
          /\ tasks[t].state = "sleeping"
          /\ t \notin DOMAIN tasks' \/ tasks'[t].state = "aborted"

\* C33: the task table changes and a pending task is cancelled only inside
\* update_alerts, or when the process ends; add_alert, remove_alerts,
\* get_alerts_map and the persistence task leave the table and the tasks as they
\* are; the alerts file holds alerts only, and a started controller has an empty
\* task table and no task whatever the file holds.
C33_OnlyReconcileTouchesTable ==
    [][/\ TableTouched => CleanStep \/ EvaluateStep \/ ReturnStep \/ Restart
       /\ (alerts_map' # alerts_map /\ pc' = pc /\ ~Restart) => ~TableTouched
       /\ ((probe' # probe \/ file' # file \/ saver' # saver) /\ ~Restart) =>
             /\ thread_handles_map' = thread_handles_map
             /\ tasks' = tasks
       /\ Restart =>
             /\ thread_handles_map' = {}
             /\ tasks' = EmptyMap
             /\ alerts_map' = Load(file)]_vars

\* a controller started from a file that holds an armed alert: the alert is in
\* the registry, no game is polled yet, and the task table is empty
C33_Witness ==
    /\ pc = "idle"
    /\ games = EmptyMap
    /\ thread_handles_map = {}
    /\ tasks = EmptyMap
    /\ file.kind = "text" /\ file.complete
    /\ alerts_map = Load(file)
    /\ \E g \in DOMAIN alerts_map : \E a \in alerts_map[g] : a.notified
    /\ probe.snapshot # EmptyMap

\* ---------------------------------------------------------------- empty groups
\* C34: a step outside update_alerts takes no game out of the registry: the game
\* whose last alert remove_alerts removes stays with an empty set; a whole file
\* that is written holds the registry with its empty games; a set becomes empty
\* only by remove_alerts, and a game with an empty set leaves the registry only
\* in clean_alerts, when the polled games lack it (or when the process is started
\* again from an older file).
C34_EmptyGroupKept ==
    [][/\ (pc' = pc /\ ~Restart) => DOMAIN alerts_map \subseteq DOMAIN alerts_map'
       /\ \A g \in DOMAIN alerts_map \cap DOMAIN alerts_map' :
             (alerts_map[g] # {} /\ alerts_map'[g] = {}) => pc' = pc \/ Restart
       /\ \A g \in DOMAIN alerts_map \ DOMAIN alerts_map' :
             alerts_map[g] = {} => (CleanStep /\ g \notin DOMAIN games) \/ Restart
       /\ (saver = "writing" /\ saver' = "waiting" /\ file'.complete) =>
             /\ DOMAIN Load(file') = DOMAIN alerts_map
             /\ \A g \in DOMAIN alerts_map : Load(file')[g] = alerts_map[g]]_vars

\* the last alert of a polled game was removed: the registry and the saved file
\* hold the game with an empty set
C34_Witness ==
    /\ \E g \in DOMAIN alerts_map \cap DOMAIN games :
          /\ alerts_map[g] = {}
          /\ file.kind = "text" /\ file.complete
          /\ g \in DOMAIN Load(file)
          /\ Load(file)[g] = {}
    /\ pc = "idle"

\* ---------------------------------------------------------------- shared entries
\* the pending tasks of the subscription of a that were spawned for another game
PendingElsewhere(tsks, g, a) == {t \in PendingFor(tsks, a) : tsks[t].game_id # g}

\* the task is no longer pending and has not called on_alert_to_fire
CancelledIn(tsks, t) == t \notin DOMAIN tsks \/ tsks[t].state = "aborted"

\* C35: the task table holds at most one entry for a room, a player and a user,
\* whatever the games of the alerts; pruning an alert, resetting it or scheduling
\* it cancels the pending task that an equal alert of another game had spawned.
C35_SharedTaskEntry ==
    /\ [](\A e1, e2 \in thread_handles_map : SameTriple(e1.key, e2.key) => e1 = e2)
    /\ [][/\ CleanStep =>
               \A g \in DOMAIN alerts_map \ DOMAIN games : \A a \in alerts_map[g] :
                   \A t \in PendingElsewhere(tasks, g, a) :
                       /\ CancelledIn(tasks', t)
                       /\ HandlesFor(thread_handles_map', a) = {}
          /\ EvaluateStep =>
               \A g \in DOMAIN alerts_map \cap DOMAIN games : \A a \in alerts_map[g] :
                   (a.notified /\ ~Active(g, a)) =>
                       \A t \in PendingElsewhere(tasks, g, a) :
                           /\ CancelledIn(tasks', t)
                           /\ HandlesFor(thread_handles_map', a) = {}
          /\ ReturnStep =>
               \A i \in DOMAIN alerts_to_fire :
                   \A t \in PendingElsewhere(tasks, alerts_to_fire[i][1], alerts_to_fire[i][2]) :
                       /\ CancelledIn(tasks', t)
                       /\ t \notin HandlesFor(thread_handles_map', alerts_to_fire[i][2])]_vars

\* two games hold an equal alert; the one of a game is armed, its player is still
\* waited for and its task is pending, while fire_alert is about to schedule the
\* one of the other game
C35_Witness ==
    /\ pc = "evaluated"
    /\ \E i \in DOMAIN alerts_to_fire :
          LET g == alerts_to_fire[i][1]
              a == alerts_to_fire[i][2]
          IN \E h \in DOMAIN alerts_map \ {g} : \E b \in alerts_map[h] :
                /\ SameTriple(a, b)
                /\ b.notified /\ Active(h, b)
                /\ \E t \in PendingElsewhere(tasks, g, a) : tasks[t].game_id = h

\* ---------------------------------------------------------------- armed alerts of the file
\* the subscriptions of the alerts of m that are armed
ArmedSubscriptions(m) ==
    UNION {{Subscription(g, a) : a \in {x \in m[g] : x.notified}} : g \in DOMAIN m}

\* the poll loop, register commands, the persistence task and restarts;
\* probe.lost remembers the subscriptions that the last start loaded armed and
\* that no scan has reset since, probe.relieved those of them a scan has reset
InitRestart ==
    /\ alerts_map = EmptyMap
    /\ thread_handles_map = {}
    /\ tasks = EmptyMap
    /\ games = EmptyMap
    /\ fetch_failed = FALSE
    /\ pc = "idle"
    /\ alerts_to_fire = <<>>
    /\ probe = [op |-> "restart", lost |-> {}, relieved |-> {}]
    /\ file = NoFile
    /\ saver = "waiting"

NextRestart ==
    \/ PoolGames
    \/ PoolWaitedPlayers
    \/ CleanAlerts
    \/ GetAlertsToFireCall
          /\ probe' = [probe EXCEPT !.lost = @ \ ResetNow,
                                    !.relieved = @ \cup (probe.lost \cap ResetNow)]
    \/ FireAlert
    \/ \E t \in 1..MaxHandles : TaskExpire(t)
    \/ \E a \in BotAlerts("g2") :
          /\ ~a.notified
          /\ AddAlert("g2", a)
          /\ probe' = IF alerts_map' = alerts_map THEN probe
                      ELSE [probe EXCEPT !.lost = @ \ {Subscription("g2", a)},
                                         !.relieved = @ \ {Subscription("g2", a)}]
    \/ PersistTick
    \/ PersistWritten
    \/ RestartCall
          /\ probe' = [probe EXCEPT !.lost = ArmedSubscriptions(Load(file)),
                                    !.relieved = {}]

SpecRestart == InitRestart /\ [][NextRestart]_vars

\* C36: an alert that the controller loaded with notified=true has no task at the
\* start, and as long as no scan has found its player not waited for it stays
\* armed without a task: a scan that finds the player waited for does not put it
\* in the fire-list and fire_alert spawns nothing for it. A scan that finds the
\* player not waited for resets it, and only then can a later scan arm it.
C36_RestartLosesArmed ==
    /\ [](\A g \in DOMAIN alerts_map : \A a \in alerts_map[g] :
             Subscription(g, a) \in probe.lost =>
                 /\ a.notified
                 /\ PendingFor(tasks, a) = {}
                 /\ HandlesFor(thread_handles_map, a) = {}
                 /\ \A i \in DOMAIN alerts_to_fire : ~SameTriple(alerts_to_fire[i][2], a))
    /\ [][/\ probe'.lost \ probe.lost # {} =>
               /\ thread_handles_map' = {}
               /\ tasks' = EmptyMap
               /\ alerts_map' = Load(file)
          /\ EvaluateStep =>
               \A g \in DOMAIN alerts_map \cap DOMAIN games : \A a \in alerts_map[g] :
                   Subscription(g, a) \in probe.lost =>
                       IF Active(g, a)
                       THEN /\ a \in alerts_map'[g]
                            /\ Subscription(g, a) \in probe'.lost
                       ELSE /\ [a EXCEPT !.notified = FALSE] \in alerts_map'[g]
                            /\ Subscription(g, a) \in probe'.relieved
          /\ \A t \in DOMAIN tasks' \ DOMAIN tasks : \A g \in DOMAIN alerts_map :
               \A a \in alerts_map[g] :
                   SameTriple(tasks'[t].alert, a) => Subscription(g, a) \notin probe.lost]_vars

\* an alert that was loaded armed is still armed, its player is waited for, an
\* update_alerts has returned and no task notifies it
C36_Witness ==
    /\ pc = "idle"
    /\ \E g \in DOMAIN alerts_map \cap DOMAIN games : \E a \in alerts_map[g] :
          /\ Subscription(g, a) \in probe.lost
          /\ Active(g, a)
          /\ PendingFor(tasks, a) = {}

\* ---------------------------------------------------------------- failed requests
\* the poll loop and register commands; probe.failed remembers the games whose
\* request of the waited players failed in the last poll, probe.reset the
\* subscriptions that a scan has reset after such a failure and that were not
\* armed or registered since, probe.rearmed those of them the last scan armed
InitFetch ==
    /\ alerts_map = EmptyMap
    /\ thread_handles_map = {}
    /\ tasks = EmptyMap
    /\ games = EmptyMap
    /\ fetch_failed = FALSE
    /\ pc = "idle"
    /\ alerts_to_fire = <<>>
    /\ probe = [op |-> "fetch", failed |-> {}, reset |-> {}, rearmed |-> {}]
    /\ file = NoFile
    /\ saver = "waiting"

\* the subscriptions the scan resets in the games whose request failed
ResetAfterFailure ==
    UNION {{Subscription(g, a) : a \in ResetOf(alerts_map, games, g)} :
             g \in GamesToScan(alerts_map, games) \cap probe.failed}

NextFetch ==
    \/ PoolGames
    \/ \E answer \in [DOMAIN games -> UNION {WaitedOutcomes(g) : g \in Games}] :
          /\ PoolWaitedPlayersCall(answer)
          /\ probe' = [probe EXCEPT !.failed = {g \in DOMAIN games : ~answer[g].ok}]
    \/ CleanAlerts
    \/ GetAlertsToFireCall
          /\ probe' = [probe EXCEPT !.reset = (@ \cup ResetAfterFailure) \ ArmedNow,
                                    !.rearmed = probe.reset \cap ArmedNow]
    \/ FireAlert
    \/ \E t \in 1..MaxHandles : TaskExpire(t)
    \/ \E g \in Games : \E a \in BotAlerts(g) :
          /\ ~a.notified
          /\ AddAlert(g, a)
          /\ probe' = IF alerts_map' = alerts_map THEN probe
                      ELSE [probe EXCEPT !.reset = @ \ {Subscription(g, a)}]

SpecFetch == InitFetch /\ [][NextFetch]_vars

\* C37: a game whose request of the waited players failed is polled with nobody
\* waited for; the scan of the update_alerts that follows sets every armed alert
\* of the game to notified=false, aborts its pending task and drops its table
\* entry; the next scan that finds the player waited for arms the alert again and
\* fire_alert spawns a task that sleeps for the alert with its delay.
C37_FailedWaitedFetchResets ==
    [][/\ (pc = "pooled" /\ pc' = "synced") =>
             \A g \in probe'.failed : g \in DOMAIN games' /\ games'[g] = {}
       /\ EvaluateStep =>
             /\ \A g \in GamesToScan(alerts_map, games) \cap probe.failed :
                   \A a \in alerts_map[g] :
                      a.notified =>
                          /\ [a EXCEPT !.notified = FALSE] \in alerts_map'[g]
                          /\ PendingFor(tasks', a) = {}
                          /\ HandlesFor(thread_handles_map', a) = {}
                          /\ \A t \in PendingFor(tasks, a) : CancelledIn(tasks', t)
                          /\ Subscription(g, a) \in probe'.reset
             /\ \A g \in GamesToScan(alerts_map, games) : \A a \in alerts_map[g] :
                   (Subscription(g, a) \in probe.reset /\ Active(g, a)) =>
                       /\ ~a.notified
                       /\ [a EXCEPT !.notified = TRUE] \in alerts_map'[g]
                       /\ <<g, a>> \in Range(alerts_to_fire')
                       /\ Subscription(g, a) \in probe'.rearmed
       /\ ReturnStep =>
             \A i \in DOMAIN alerts_to_fire :
                 Subscription(alerts_to_fire[i][1], alerts_to_fire[i][2]) \in probe.rearmed =>
                     \E t \in DOMAIN tasks' \ DOMAIN tasks :
                         /\ tasks'[t] = [alert |-> alerts_to_fire[i][2],
                                         game_id |-> tasks'[t].game_id,
                                         state |-> "sleeping"]
                         /\ HandlesFor(thread_handles_map', alerts_to_fire[i][2]) = {t}]_vars

\* an alert that was armed with a pending task was reset after a failed request,
\* the next poll succeeded with its player waited for, and its new task is pending
C37_Witness ==
    /\ pc = "idle"
    /\ probe.failed = {}
    /\ \E g \in DOMAIN alerts_map \cap DOMAIN games : \E a \in alerts_map[g] :
          /\ Subscription(g, a) \in probe.rearmed
          /\ a.notified /\ Active(g, a)
          /\ PendingIn(tasks, g, a) # {}

\* ---------------------------------------------------------------- register in two steps
\* handle_matrix_message builds the CommandContext from the games map and runs
\* the command; the alert to add waits in probe.pending until the handler locks
\* the controller again. probe.pruned tells that clean_alerts dropped the game
\* of the waiting alert, probe.orphans holds the alerts added after that
InitLateAdd ==
    /\ alerts_map = EmptyMap
    /\ thread_handles_map = {}
    /\ tasks = EmptyMap
    /\ games = EmptyMap
    /\ fetch_failed = FALSE
    /\ pc = "idle"
    /\ alerts_to_fire = <<>>
    /\ probe = [op |-> "race", pending |-> {}, pruned |-> FALSE, orphans |-> {}]
    /\ file = NoFile
    /\ saver = "waiting"

\* the CommandContext is built and the register command is run
RegisterValidate(room_id, user_id, game_id, player_name, delay) ==
    /\ pc \in {"idle", "synced"}
    /\ RegistryFree
    /\ probe.pending = {}
    /\ probe' = [probe EXCEPT
                   !.pending = handle_register(room_id, user_id, games, game_id,
                                               player_name, delay).alert_to_add,
                   !.pruned = FALSE]
    /\ UNCHANGED <<alerts_map, thread_handles_map, tasks, games, fetch_failed, pc,
                   alerts_to_fire, file, saver>>

\* the handler locks the controller and calls add_alert with the alert to add
RegisterAdd ==
    /\ probe.pending # {}
    /\ LET e == CHOOSE x \in probe.pending : TRUE
       IN /\ AddAlert(e[1], e[2])
          /\ probe' = [probe EXCEPT !.pending = {},
                                    !.pruned = FALSE,
                                    !.orphans = IF probe.pruned THEN @ \cup {e} ELSE @]

\* clean_alerts while a register command may be waiting for the controller
CleanAlertsLateAdd ==
    /\ CleanAlertsCall
    /\ probe' = [probe EXCEPT
                   !.pruned = @ \/ \E e \in probe.pending :
                                      e[1] \in GamesToClean(alerts_map, games),
                   !.orphans = {}]

NextLateAdd ==
    \/ PoolGames
    \/ PoolWaitedPlayers
    \/ CleanAlertsLateAdd
    \/ GetAlertsToFire
    \/ FireAlert
    \/ \E t \in 1..MaxHandles : TaskExpire(t)
    \/ \E room_id \in BotRooms, user_id \in BotUsers, game_id \in Games,
          player_name \in RegisterNames, delay \in RegisterDelays :
             RegisterValidate(room_id, user_id, game_id, player_name, delay)
    \/ RegisterAdd

SpecLateAdd == InitLateAdd /\ [][NextLateAdd]_vars

\* the handler of a register command adds its alert
RegisterAddStep == probe.pending # {} /\ probe'.pending = {}

\* C38: the alert a register command yields was validated against the games map
\* read before; when the handler adds it, it is inserted whatever the games map
\* holds by then, and when clean_alerts has dropped its game in between the entry
\* of the game is created again with that alert alone. No task was spawned for
\* such an alert of that game and it is in no list to fire, and the next clean_alerts that does not find the
\* game in the games map drops the entry again.
C38_RegisterAfterPrune ==
    /\ [](\A e \in probe.orphans :
             /\ e[1] \in DOMAIN alerts_map /\ e[2] \in alerts_map[e[1]]
             /\ \A t \in DOMAIN tasks :
                   ~(tasks[t].game_id = e[1] /\ SameTriple(tasks[t].alert, e[2]))
             /\ e \notin Range(alerts_to_fire))
    /\ [][/\ RegisterAddStep =>
               \A e \in probe.pending :
                   /\ e[1] \in DOMAIN alerts_map'
                   /\ \E b \in alerts_map'[e[1]] : SameTriple(b, e[2])
                   /\ probe.pruned =>
                         /\ e[1] \notin DOMAIN alerts_map
                         /\ alerts_map'[e[1]] = {e[2]}
                         /\ e \in probe'.orphans
          /\ CleanStep =>
               \A e \in probe.orphans :
                   e[1] \notin DOMAIN games => e[1] \notin DOMAIN alerts_map']_vars

\* a register command was validated, clean_alerts dropped the entry of its game,
\* the command added its alert and the poll that followed did not find the game
C38_Witness ==
    /\ pc = "synced"
    /\ \E e \in probe.orphans :
          /\ e[1] \notin DOMAIN games
          /\ alerts_map[e[1]] = {e[2]}

\* ---------------------------------------------------------------- locks
\* The three tokio mutexes: Arc<Mutex<TMarsSync>>, Arc<Mutex<AlertController>>
\* and the Arc<Mutex<..>> of alerts_map, and the tasks that lock them: the poll
\* task, two spawned handlers of Matrix messages and the persistence task.
Locks == {"tmars_sync", "alert_controller", "alerts_map"}
LockTasks == {"poll", "handler1", "handler2", "persistence"}

\* where each task starts and waits for its next round
StartOf(t) ==
    CASE t = "poll" -> "p_tick"
      [] t = "persistence" -> "s_tick"
      [] OTHER -> "h_idle"

\* a mutated handler that locks alerts_map before the controller
WantedRegistryFirst(pos) ==
    CASE pos \in {"p_sync", "p_games", "h_ctx_games"} -> "tmars_sync"
      [] pos \in {"p_update", "h_ctx_map", "h_add", "h_remove"} -> "alert_controller"
      [] pos \in {"p_clean", "p_scan", "h_ctx_alerts", "h_add_alert", "h_remove_alerts",
                  "s_lock"} -> "alerts_map"
      [] OTHER -> "none"

\* the mutex whose lock().await the task is at, "none" elsewhere
Wanted(pos) ==
    CASE pos \in {"p_sync", "p_games", "h_ctx_games"} -> "tmars_sync"
      [] pos \in {"p_update", "h_ctx_alerts", "h_add", "h_remove"} -> "alert_controller"
      [] pos \in {"p_clean", "p_scan", "h_ctx_map", "h_add_alert", "h_remove_alerts",
                  "s_lock"} -> "alerts_map"
      [] OTHER -> "none"

\* the guards that are still alive at a position: a guard is dropped at the end
\* of the statement that took it, or of the function or loop turn that bound it
Kept(pos) ==
    CASE pos \in {"p_in_sync", "p_get_games", "h_ctx_alerts"} -> {"tmars_sync"}
      [] pos \in {"p_clean", "p_scan", "p_fire", "h_add_alert", "h_remove_alerts"} ->
            {"alert_controller"}
      [] pos \in {"p_retain", "p_scanning", "h_adding", "h_removing"} ->
            {"alert_controller", "alerts_map"}
      [] pos = "h_ctx_map" -> {"tmars_sync", "alert_controller"}
      [] pos = "h_ctx_clone" -> Locks
      [] pos = "s_persist" -> {"alerts_map"}
      [] OTHER -> {}

\* the positions that follow a position in the code of the task
Succ(pos) ==
    CASE pos = "p_tick" -> {"p_sync"}
      [] pos = "p_sync" -> {"p_in_sync"}
      [] pos = "p_in_sync" -> {"p_games"}
      [] pos = "p_games" -> {"p_get_games"}
      [] pos = "p_get_games" -> {"p_update"}
      [] pos = "p_update" -> {"p_clean"}
      [] pos = "p_clean" -> {"p_retain"}
      [] pos = "p_retain" -> {"p_scan"}
      [] pos = "p_scan" -> {"p_scanning"}
      [] pos = "p_scanning" -> {"p_fire"}
      [] pos = "p_fire" -> {"p_tick"}
      [] pos = "h_idle" -> {"h_ctx_games"}
      [] pos = "h_ctx_games" -> {"h_ctx_alerts"}
      [] pos = "h_ctx_alerts" -> {"h_ctx_map"}
      [] pos = "h_ctx_map" -> {"h_ctx_clone"}
      [] pos = "h_ctx_clone" -> {"h_command"}
      [] pos = "h_command" -> {"h_idle", "h_add", "h_remove", "h_reply"}
      [] pos = "h_add" -> {"h_add_alert"}
      [] pos = "h_add_alert" -> {"h_adding"}
      [] pos = "h_adding" -> {"h_added"}
      [] pos = "h_added" -> {"h_remove", "h_reply"}
      [] pos = "h_remove" -> {"h_remove_alerts"}
      [] pos = "h_remove_alerts" -> {"h_removing"}
      [] pos = "h_removing" -> {"h_reply"}
      [] pos = "h_reply" -> {"h_idle"}
      [] pos = "s_tick" -> {"s_lock"}
      [] pos = "s_lock" -> {"s_persist"}
      [] pos = "s_persist" -> {"s_tick"}

\* the data of the bot is left alone: only the positions and the guards change
InitLocks ==
    /\ alerts_map = EmptyMap
    /\ thread_handles_map = {}
    /\ tasks = EmptyMap
    /\ games = EmptyMap
    /\ fetch_failed = FALSE
    /\ pc = "idle"
    /\ alerts_to_fire = <<>>
    /\ probe = [op |-> "locks",
                at |-> [t \in LockTasks |-> StartOf(t)],
                held |-> [t \in LockTasks |-> {}]]
    /\ file = NoFile
    /\ saver = "waiting"

LockFree(l) == \A t \in LockTasks : l \notin probe.held[t]

Move(t, next, got) ==
    /\ probe' = [probe EXCEPT !.at[t] = next,
                              !.held[t] = (@ \cup got) \cap Kept(next)]
    /\ UNCHANGED <<alerts_map, thread_handles_map, tasks, games, fetch_failed, pc,
                   alerts_to_fire, file, saver>>

\* lock().await returns the guard
Acquire(t) ==
    /\ Wanted(probe.at[t]) # "none"
    /\ LockFree(Wanted(probe.at[t]))
    /\ \E next \in Succ(probe.at[t]) : Move(t, next, {Wanted(probe.at[t])})

\* the task runs to its next lock().await or to the end of its round
Advance(t) ==
    /\ Wanted(probe.at[t]) = "none"
    /\ probe.at[t] # "h_idle"
    /\ \E next \in Succ(probe.at[t]) : Move(t, next, {})

\* a message for the bot arrives and its handler is spawned
Receive(t) ==
    /\ probe.at[t] = "h_idle"
    /\ \E next \in Succ(probe.at[t]) : Move(t, next, {})

NextLocks ==
    \E t \in LockTasks : Acquire(t) \/ Advance(t) \/ Receive(t)

\* the runtime polls every task that can run, and a tokio Mutex hands the lock
\* to its waiters in the order of their requests
SpecLocks ==
    /\ InitLocks
    /\ [][NextLocks]_vars
    /\ \A t \in LockTasks : WF_vars(Advance(t)) /\ SF_vars(Acquire(t))

LockRank(l) ==
    CASE l = "tmars_sync" -> 1
      [] l = "alert_controller" -> 2
      [] l = "alerts_map" -> 3

\* the task waits for a mutex that another task holds
Blocked(t) ==
    /\ Wanted(probe.at[t]) # "none"
    /\ ~LockFree(Wanted(probe.at[t]))

\* every task of the set waits for a mutex held by a task of the set
Deadlocked(S) ==
    /\ S # {}
    /\ \A t \in S : /\ Blocked(t)
                    /\ \E u \in S : Wanted(probe.at[t]) \in probe.held[u]

\* C39: a task that waits for a mutex holds only mutexes that come before it in
\* the order tmars_sync, alert_controller, alerts_map; no mutex has two holders;
\* no set of tasks waits in a circle; and with a fair scheduler and fair mutexes
\* every task that waits for a mutex comes to hold it.
C39_DeadlockFreedom ==
    /\ [](\A t \in LockTasks :
             Wanted(probe.at[t]) # "none" =>
                 \A l \in probe.held[t] : LockRank(l) < LockRank(Wanted(probe.at[t])))
    /\ [](\A t, u \in LockTasks : t # u => probe.held[t] \cap probe.held[u] = {})
    /\ [](\A S \in SUBSET LockTasks : ~Deadlocked(S))
    /\ \A t \in LockTasks : \A l \in Locks :
          (Wanted(probe.at[t]) = l) ~> (l \in probe.held[t])

\* a handler holds the first two mutexes and waits for alerts_map, which the
\* persistence task holds, while the poll task waits for the first mutex
C39_Witness ==
    /\ probe.at["handler1"] = "h_ctx_map"
    /\ probe.held["handler1"] = {"tmars_sync", "alert_controller"}
    /\ probe.at["persistence"] = "s_persist"
    /\ probe.at["poll"] = "p_sync"
    /\ Blocked("handler1") /\ Blocked("poll")

====
